---- MODULE Spec2Model ----
(***************************************************************************)
(* PlantUML transpiler: the line-oriented parser (PlantUMLParser), the     *)
(* relationship-arrow recogniser, and the generator traversal              *)
(* (BaseGenerator.generate) with the Java rendering hooks.                 *)
(*                                                                         *)
(* Text is modelled at two levels.  A relationship line is a sequence of   *)
(* one-character strings, so that includes/split/match act on the arrow    *)
(* spelling itself.  Every other line is a record naming the syntactic     *)
(* shape the regular expressions of the parser distinguish.                *)
(***************************************************************************)
EXTENDS Integers, Sequences, FiniteSets, TLC

\* A string is a sequence of atoms: single characters where the parser looks
\* at characters, whole words elsewhere.  JavaScript null / undefined is a
\* reserved string no text can spell.
NULL == <<"#null">>

Str(word) == <<word>>

\* ------------------------------------------------------------------ bounds
\* longest text, in lines, handed to one parse call
MaxLines == 4

\* ------------------------------------------------------------ sequences
Range(s) == {s[n] : n \in 1..Len(s)}

\* Array.prototype.find on a list of named records: index of the first
\* element called nm, 0 when there is none
RECURSIVE FindFrom(_, _, _)
FindFrom(s, nm, n) ==
  IF n > Len(s) THEN 0
  ELSE IF s[n].name = nm THEN n
  ELSE FindFrom(s, nm, n + 1)

FindIndex(s, nm) == FindFrom(s, nm, 1)

\* ------------------------------------------------- character-level strings
\* String.prototype.startsWith at offset n (1-based)
MatchAt(s, tok, n) ==
  /\ n >= 1
  /\ n + Len(tok) - 1 <= Len(s)
  /\ \A j \in 1..Len(tok) : s[n + j - 1] = tok[j]

\* String.prototype.indexOf: first offset of tok in s, 0 when absent
RECURSIVE IndexFrom(_, _, _)
IndexFrom(s, tok, n) ==
  IF n + Len(tok) - 1 > Len(s) THEN 0
  ELSE IF MatchAt(s, tok, n) THEN n
  ELSE IndexFrom(s, tok, n + 1)

IndexOf(s, tok) == IndexFrom(s, tok, 1)

\* String.prototype.includes
Includes(s, tok) == IndexOf(s, tok) # 0

\* String.prototype.split(tok): the list of pieces between occurrences
RECURSIVE Split(_, _)
Split(s, tok) ==
  LET n == IndexOf(s, tok) IN
  IF n = 0 THEN <<s>>
  ELSE <<SubSeq(s, 1, n - 1)>> \o Split(SubSeq(s, n + Len(tok), Len(s)), tok)

IsSpace(c) == c = " "

\* the atoms that are not word characters (\w) of a regular expression
Punctuation ==
  {" ", "<", ">", "|", "-", ".", "*", ",", ":", "(", ")", "{", "}", "\"",
   "+", "#", "~"}

IsWord(c) == c \notin Punctuation

RECURSIVE TrimLeft(_)
TrimLeft(s) ==
  IF s # <<>> /\ IsSpace(Head(s)) THEN TrimLeft(Tail(s)) ELSE s

RECURSIVE TrimRight(_)
TrimRight(s) ==
  IF s # <<>> /\ IsSpace(s[Len(s)]) THEN TrimRight(SubSeq(s, 1, Len(s) - 1))
  ELSE s

\* String.prototype.trim
Trim(s) == TrimLeft(TrimRight(s))

\* ------------------------------------------------------- arrow vocabulary
T_inh_rev  == <<"<", "|", "-", "-">>
T_inh      == <<"-", "-", "|", ">">>
T_impl_rev == <<"<", "|", ".", ".">>
T_impl     == <<".", ".", "|", ">">>
T_assoc    == <<"-", "-", ">">>
T_assoc_rev == <<"<", "-", "-">>
T_aggr     == <<"o", "-", "-", ">">>
T_aggr_rev == <<"<", "-", "-", "o">>
T_comp     == <<"*", "-", "-", ">">>
T_comp_rev == <<"<", "-", "-", "*">>
T_dep      == <<".", ".", ">">>
T_dep_rev  == <<"<", ".", ".">>

ArrowTokens ==
  {T_inh_rev, T_inh, T_impl_rev, T_impl, T_assoc, T_assoc_rev,
   T_aggr, T_aggr_rev, T_comp, T_comp_rev, T_dep, T_dep_rev}

\* PlantUMLParser.isRelationship: the line holds one of the arrow tokens
isRelationship(line) == \E tok \in ArrowTokens : Includes(line, tok)

\* ------------------------------------------------- label extraction
Quote == "\""

\* offset of the first quote at or after n, 0 when none
RECURSIVE NextQuote(_, _)
NextQuote(s, n) ==
  IF n > Len(s) THEN 0
  ELSE IF s[n] = Quote THEN n
  ELSE NextQuote(s, n + 1)

\* /"([^"]+)"/ : <<open, close>> of the first quoted, non-empty run, or <<0, 0>>
RECURSIVE LabelSpan(_, _)
LabelSpan(s, n) ==
  LET a == NextQuote(s, n) IN
  IF a = 0 THEN <<0, 0>>
  ELSE LET b == NextQuote(s, a + 1) IN
       IF b = 0 THEN <<0, 0>>
       ELSE IF b > a + 1 THEN <<a, b>>
       ELSE LabelSpan(s, b)

\* line.replace(/"[^"]+"\s*/, ''): the line without its first label and the
\* white space that follows it
RemoveLabel(s) ==
  LET sp == LabelSpan(s, 1) IN
  IF sp[1] = 0 THEN s
  ELSE SubSeq(s, 1, sp[1] - 1) \o TrimLeft(SubSeq(s, sp[2] + 1, Len(s)))

LabelOf(s) ==
  LET sp == LabelSpan(s, 1) IN
  IF sp[1] = 0 THEN <<>> ELSE SubSeq(s, sp[1] + 1, sp[2] - 1)

\* ------------------------------------- /\s*(\w+)\s+TOKEN\s+(\w+)\s*/
RECURSIVE WordStart(_, _)
WordStart(s, e) ==
  IF e > 1 /\ IsWord(s[e - 1]) THEN WordStart(s, e - 1) ELSE e

RECURSIVE WordEnd(_, _)
WordEnd(s, b) ==
  IF b < Len(s) /\ IsWord(s[b + 1]) THEN WordEnd(s, b + 1) ELSE b

RECURSIVE SkipSpacesBack(_, _)
SkipSpacesBack(s, n) ==
  IF n >= 1 /\ IsSpace(s[n]) THEN SkipSpacesBack(s, n - 1) ELSE n

RECURSIVE SkipSpacesFwd(_, _)
SkipSpacesFwd(s, n) ==
  IF n <= Len(s) /\ IsSpace(s[n]) THEN SkipSpacesFwd(s, n + 1) ELSE n

\* the token at offset n is framed as  word space+ TOKEN space+ word
FramedAt(s, tok, n) ==
  LET e == SkipSpacesBack(s, n - 1)
      b == SkipSpacesFwd(s, n + Len(tok))
  IN /\ MatchAt(s, tok, n)
     /\ e < n - 1 /\ e >= 1 /\ IsWord(s[e])
     /\ b > n + Len(tok) /\ b <= Len(s) /\ IsWord(s[b])

RECURSIVE FramedFrom(_, _, _)
FramedFrom(s, tok, n) ==
  IF n + Len(tok) - 1 > Len(s) THEN 0
  ELSE IF FramedAt(s, tok, n) THEN n
  ELSE FramedFrom(s, tok, n + 1)

\* line.match(/\s*(\w+)\s+TOKEN\s+(\w+)\s*/): <<group 1, group 2>>, or <<>>
MatchFramed(s, tok) ==
  LET n == FramedFrom(s, tok, 1) IN
  IF n = 0 THEN <<>>
  ELSE LET e == SkipSpacesBack(s, n - 1)
           b == SkipSpacesFwd(s, n + Len(tok))
       IN <<SubSeq(s, WordStart(s, e), e), SubSeq(s, b, WordEnd(s, b))>>

\* new Relationship(sourceClass, targetClass, type, label)
Relationship(src, tgt, type, label) ==
  [sourceClass |-> src, targetClass |-> tgt, type |-> type, label |-> label]

\* line.split(TOKEN).map(part => part.trim()) when it has exactly two parts
SplitTwo(s, tok) ==
  LET parts == Split(s, tok) IN
  IF Len(parts) = 2 THEN <<Trim(parts[1]), Trim(parts[2])>> ELSE <<>>

\* <<source, target, type>> from the two operands of an arrow; <<>> when the
\* operands were not found
Triple(parts, swap, type) ==
  IF parts = <<>> THEN <<>>
  ELSE IF swap THEN <<parts[2], parts[1], type>>
  ELSE <<parts[1], parts[2], type>>

\* the chain with the arrowhead of an inheritance or implementation read as
\* the child's end
ArrowChainChildAtHead(line) ==
  IF Includes(line, T_inh)
    THEN Triple(SplitTwo(line, T_inh), TRUE, "inheritance")
  ELSE IF Includes(line, T_inh_rev)
    THEN Triple(SplitTwo(line, T_inh_rev), FALSE, "inheritance")
  ELSE IF Includes(line, T_impl)
    THEN Triple(SplitTwo(line, T_impl), TRUE, "implementation")
  ELSE IF Includes(line, T_impl_rev)
    THEN Triple(SplitTwo(line, T_impl_rev), FALSE, "implementation")
  ELSE <<>>

\* the if / else-if chain of PlantUMLParser.parseRelationship over the line
\* with its label removed
ArrowChain(line) ==
  IF MatchFramed(line, T_comp) # <<>>
    THEN Triple(MatchFramed(line, T_comp), FALSE, "composition")
  ELSE IF MatchFramed(line, T_comp_rev) # <<>>
    THEN Triple(MatchFramed(line, T_comp_rev), TRUE, "composition")
  ELSE IF MatchFramed(line, T_aggr) # <<>>
    THEN Triple(MatchFramed(line, T_aggr), FALSE, "aggregation")
  ELSE IF MatchFramed(line, T_aggr_rev) # <<>>
    THEN Triple(MatchFramed(line, T_aggr_rev), TRUE, "aggregation")
  ELSE IF Includes(line, T_inh)
    THEN Triple(SplitTwo(line, T_inh), FALSE, "inheritance")
  ELSE IF Includes(line, T_inh_rev)
    THEN Triple(SplitTwo(line, T_inh_rev), TRUE, "inheritance")
  ELSE IF Includes(line, T_impl)
    THEN Triple(SplitTwo(line, T_impl), FALSE, "implementation")
  ELSE IF Includes(line, T_impl_rev)
    THEN Triple(SplitTwo(line, T_impl_rev), TRUE, "implementation")
  ELSE IF Includes(line, T_dep)
    THEN Triple(SplitTwo(line, T_dep), FALSE, "dependency")
  ELSE IF Includes(line, T_dep_rev)
    THEN Triple(SplitTwo(line, T_dep_rev), TRUE, "dependency")
  ELSE IF Includes(line, T_assoc)
    THEN Triple(SplitTwo(line, T_assoc), FALSE, "association")
  ELSE IF Includes(line, T_assoc_rev)
    THEN Triple(SplitTwo(line, T_assoc_rev), TRUE, "association")
  ELSE <<>>

\* PlantUMLParser.parseRelationship: <<the Relationship of the line>>, or <<>>
\* when the line yields none (sourceClass && targetClass && type is falsy)
parseRelationship(line) ==
  LET t == ArrowChain(Trim(RemoveLabel(line))) IN
  IF t = <<>> \/ t[1] = <<>> \/ t[2] = <<>> THEN <<>>
  ELSE <<Relationship(t[1], t[2], t[3], LabelOf(line))>>

\* =================================================== intermediate model
\* new Class(name, isAbstract, packageName)
Class(name, isAbstract, packageName) ==
  [name |-> name, isAbstract |-> isAbstract, packageName |-> packageName,
   attributes |-> <<>>, methods |-> <<>>, constructors |-> <<>>,
   generics |-> <<>>]

\* new Interface(name, packageName)
Interface(name, packageName) ==
  [name |-> name, packageName |-> packageName, methods |-> <<>>,
   generics |-> <<>>]

\* new Enum(name, packageName)
Enum(name, packageName) ==
  [name |-> name, packageName |-> packageName, values |-> <<>>]

\* new Attribute(name, type, visibility, isStatic, isFinal)
Attribute(name, type, visibility, isStatic, isFinal) ==
  [name |-> name, type |-> type, visibility |-> visibility,
   isStatic |-> isStatic, isFinal |-> isFinal]

\* new Method(name, returnType, parameters, visibility, isStatic, isAbstract)
Method(name, returnType, parameters, visibility, isStatic, isAbstract) ==
  [name |-> name, returnType |-> returnType, parameters |-> parameters,
   visibility |-> visibility, isStatic |-> isStatic, isAbstract |-> isAbstract]

\* new ClassDiagram(); packages is the object's property list in creation
\* order, each property a package name with its member names
ClassDiagram ==
  [classes |-> <<>>, interfaces |-> <<>>, enums |-> <<>>,
   relationships |-> <<>>, packages |-> <<>>]

\* diagram.packages[name] is defined
HasPackage(packages, name) == \E n \in 1..Len(packages) : packages[n].name = name

\* the property names every object inherits from Object.prototype that are
\* their own lower-cased form
InheritedKeys == {"constructor", "__proto__"}

\* diagram.packages[name] is no property of packages itself but the value
\* inherited from Object.prototype: truthy, and without a push
InheritedPackage(packages, name) ==
  ~HasPackage(packages, name) /\ Len(name) = 1 /\ name[1] \in InheritedKeys

\* diagram.packages[name]
PackageMembers(packages, name) == packages[FindIndex(packages, name)].members

\* diagram.packages[name] = members: an existing property keeps its place
SetPackage(packages, name, members) ==
  IF HasPackage(packages, name)
  THEN [packages EXCEPT ![FindIndex(packages, name)].members = members]
  ELSE Append(packages, [name |-> name, members |-> members])

\* =============================================================== lines
PackageLine(name, brace) == [k |-> "package", name |-> name, brace |-> brace]

\* a line that starts with 'package ' and that the package pattern rejects,
\* such as  package "p" { class A { } }
PackageOtherLine == [k |-> "packageOther"]

CloseLine == [k |-> "close"]

BlankLine == [k |-> "blank"]

EntityLine(kind, name, isAbstract, brace) ==
  [k |-> "entity", kind |-> kind, name |-> name, isAbstract |-> isAbstract,
   brace |-> brace]

\* [{tag}...] [visibility] [{tag}...] name [(params)] [: type]
MemberLine(tags1, vis, tags2, name, parens, params, type) ==
  [k |-> "member", tags1 |-> tags1, vis |-> vis, tags2 |-> tags2,
   name |-> name, parens |-> parens, params |-> params, type |-> type]

\* any other line, character by character
TextLine(s) == [k |-> "text", s |-> s]

\* the text of a line as handed to Enum.values
LineText(line) == IF line.k = "text" THEN line.s ELSE line.name

\* ============================================================== parser
\* PlantUMLParser.parseVisibility
parseVisibility(symbol) ==
  CASE symbol = "+" -> "public"
    [] symbol = "-" -> "private"
    [] symbol = "#" -> "protected"
    [] symbol = "~" -> "package"
    [] OTHER -> "public"

\* the one optional {tag} the older parseMember reads, after the symbol
extractModifiersOneAfterSymbol(line) ==
  IF line.vis # "" /\ line.tags1 = <<>> /\ line.tags2 # <<>>
  THEN <<line.tags2[1]>> ELSE <<>>

\* PlantUMLParser.extractModifiers: every {word} tag of the line, in order
extractModifiers(line) == line.tags1 \o line.tags2

\* PlantUMLParser.isEntityDefinitionStart
isEntityDefinitionStart(line) == line.k = "entity"

\* PlantUMLParser.isMemberDefinition: the line starts with a visibility
\* symbol, with a {tag}, with  name:  or with  name(
isMemberDefinition(line) ==
  IF line.k = "member"
  THEN \/ line.vis # ""
       \/ extractModifiers(line) # <<>>
       \/ line.parens
       \/ line.type # <<>>
  ELSE LET t == TrimLeft(line.s)
           e == IF t # <<>> /\ IsWord(t[1]) THEN SkipSpacesFwd(t, WordEnd(t, 1) + 1)
                ELSE 0
       IN /\ t # <<>>
          /\ \/ t[1] \in {"+", "-", "#", "~"}
             \/ e >= 1 /\ e <= Len(t) /\ t[e] \in {":", "("}

\* new Parameter(name, type)
Parameter(name, type) == [name |-> name, type |-> type]

\* the character loop of parseParameters: the pieces between the commas
\* that lie outside angle brackets, each trimmed
RECURSIVE SplitParams(_, _, _, _, _)
SplitParams(paramsStr, n, buffer, angleBracketCount, params) ==
  IF n > Len(paramsStr)
  THEN IF Trim(buffer) # <<>> THEN Append(params, Trim(buffer)) ELSE params
  ELSE LET char == paramsStr[n] IN
       IF char = "<"
       THEN SplitParams(paramsStr, n + 1, Append(buffer, char),
                        angleBracketCount + 1, params)
       ELSE IF char = ">"
       THEN SplitParams(paramsStr, n + 1, Append(buffer, char),
                        angleBracketCount - 1, params)
       ELSE IF char = "," /\ angleBracketCount = 0
       THEN SplitParams(paramsStr, n + 1, <<>>, angleBracketCount,
                        Append(params, Trim(buffer)))
       ELSE SplitParams(paramsStr, n + 1, Append(buffer, char),
                        angleBracketCount, params)

\* const [name, type] = paramStr.split(':').map(s => s.trim());
\* new Parameter(name, type || 'Object')
ParameterOf(paramStr) ==
  LET parts == Split(paramStr, <<":">>)
      type == IF Len(parts) >= 2 THEN Trim(parts[2]) ELSE <<>>
  IN Parameter(Trim(parts[1]), IF type # <<>> THEN type ELSE Str("Object"))

\* PlantUMLParser.parseParameters
parseParameters(paramsStr) ==
  IF Trim(paramsStr) = <<>> THEN <<>>
  ELSE LET params == SplitParams(paramsStr, 1, <<>>, 0, <<>>) IN
       [n \in 1..Len(params) |-> ParameterOf(params[n])]

\* what the entity kinds carry: a Class has attributes, methods and
\* constructors, an Interface methods only, an Enum values only
HasField(kind, field) ==
  \/ kind = "class" /\ field \in {"attributes", "methods", "constructors"}
  \/ kind = "interface" /\ field = "methods"
  \/ kind = "enum" /\ field = "values"

\* no line is taken for a constructor
constructorMatchIgnored(line, entity) == FALSE

\* PlantUMLParser.parseMember, the two constructor patterns: the clean line
\* ends after the closing parenthesis and the name is the entity's own
constructorMatch(line, entity) ==
  line.parens /\ line.type = <<>> /\ line.name = entity.name

\* PlantUMLParser.parseMember on a member-shaped line: the entity after the
\* line, and whether the call raised (push on a list the entity lacks)
parseMember(line, kind, entity) ==
  LET modifiers == Range(extractModifiers(line))
      visible == line.vis # ""
      visibility == IF visible THEN parseVisibility(line.vis) ELSE "public"
      isCtor == constructorMatch(line, entity)
      ctor == Method(entity.name, NULL, parseParameters(line.params),
                     visibility, FALSE, FALSE)
      method == Method(line.name,
                       IF line.type # <<>> THEN line.type ELSE Str("void"),
                       parseParameters(line.params), visibility,
                       "static" \in modifiers, "abstract" \in modifiers)
      attribute == Attribute(line.name,
                             IF line.type # <<>> THEN line.type ELSE Str("Object"),
                             visibility,
                             "static" \in modifiers, "final" \in modifiers)
  IN IF line.k # "member" THEN [entity |-> entity, threw |-> FALSE]
     ELSE IF isCtor
     THEN [entity |-> IF HasField(kind, "constructors")
                      THEN [entity EXCEPT !.constructors = Append(@, ctor)]
                      ELSE entity,
           threw |-> FALSE]
     ELSE IF line.parens
     THEN IF HasField(kind, "methods")
          THEN [entity |-> [entity EXCEPT !.methods = Append(@, method)],
                threw |-> FALSE]
          ELSE [entity |-> entity, threw |-> TRUE]
     ELSE IF HasField(kind, "attributes")
     THEN [entity |-> [entity EXCEPT !.attributes = Append(@, attribute)],
           threw |-> FALSE]
     ELSE [entity |-> entity, threw |-> FALSE]

\* ========================================================== parse loop
\* the value of currentEntity: null, or the entity of a list of the diagram
NoEntity == [kind |-> "none", idx |-> 0]

EntityRef(kind, idx) == [kind |-> kind, idx |-> idx]

\* the list of the diagram that holds the entities of a kind
ListOf(diagram, kind) ==
  CASE kind = "class" -> diagram.classes
    [] kind = "interface" -> diagram.interfaces
    [] kind = "enum" -> diagram.enums

WithList(diagram, kind, list) ==
  CASE kind = "class" -> [diagram EXCEPT !.classes = list]
    [] kind = "interface" -> [diagram EXCEPT !.interfaces = list]
    [] kind = "enum" -> [diagram EXCEPT !.enums = list]

\* PlantUMLParser.parseEntityStart: the new entity takes the cursor as its
\* packageName and is pushed on the list of its kind
parseEntityStart(line, diagram, cursor) ==
  LET entity == CASE line.kind = "class" -> Class(line.name, line.isAbstract, cursor)
                  [] line.kind = "interface" -> Interface(line.name, cursor)
                  [] line.kind = "enum" -> Enum(line.name, cursor)
      list == Append(ListOf(diagram, line.kind), entity)
  IN [diagram |-> WithList(diagram, line.kind, list),
      entity |-> EntityRef(line.kind, Len(list))]

\* the local variables of parse together with this.currentPackage
ParseState(cursor) ==
  [currentPackage |-> cursor, currentEntity |-> NoEntity,
   inEntityDefinition |-> FALSE, packageBracketCount |-> 0,
   entityBracketCount |-> 0, diagram |-> ClassDiagram, threw |-> FALSE]

\* the branch of the if / else-if chain of the loop that a line takes
Branch(st, line) ==
  IF line.k = "blank" THEN "blank"
  ELSE IF line.k \in {"package", "packageOther"} THEN "package"
  ELSE IF line.k = "close" /\ ~st.inEntityDefinition /\ st.packageBracketCount > 0
  THEN "endPackage"
  ELSE IF isEntityDefinitionStart(line) THEN "entityStart"
  ELSE IF line.k = "close" /\ st.inEntityDefinition THEN "endEntity"
  ELSE IF st.inEntityDefinition /\ st.currentEntity # NoEntity THEN "body"
  ELSE IF ~st.inEntityDefinition /\ line.k = "text" /\ isRelationship(line.s)
  THEN "relationship"
  ELSE "ignored"

\* if (line.startsWith('package ')) { ... }
PackageDefinition(st, line) ==
  IF line.k = "packageOther" THEN st
  ELSE [st EXCEPT !.currentPackage = line.name,
                  !.packageBracketCount = IF line.brace THEN @ + 1 ELSE @,
                  !.diagram.packages = SetPackage(@, line.name, <<>>)]

\* a closing } of a package that forgets to clear the cursor
EndOfPackageKeepsCursor(st) ==
  [st EXCEPT !.packageBracketCount = @ - 1]

\* else if (line === '}' && !inEntityDefinition && packageBracketCount > 0)
EndOfPackage(st) ==
  [st EXCEPT !.packageBracketCount = @ - 1,
             !.currentPackage = IF st.packageBracketCount - 1 = 0 THEN NULL ELSE @]

\* else if (this.isEntityDefinitionStart(line))
EntityDefinitionStart(st, line) ==
  LET r == parseEntityStart(line, st.diagram, st.currentPackage)
      cur == st.currentPackage
      listed == cur # NULL /\ cur # <<>> /\ HasPackage(r.diagram.packages, cur)
      packages == IF listed
                  THEN SetPackage(r.diagram.packages, cur,
                                  Append(PackageMembers(r.diagram.packages, cur),
                                         line.name))
                  ELSE r.diagram.packages
  IN IF InheritedPackage(r.diagram.packages, cur)
     THEN [st EXCEPT !.currentEntity = r.entity,
                     !.inEntityDefinition = TRUE,
                     !.diagram = r.diagram,
                     !.threw = TRUE]
     ELSE [st EXCEPT !.currentEntity = r.entity,
                     !.inEntityDefinition = TRUE,
                     !.diagram = [r.diagram EXCEPT !.packages = packages],
                     !.entityBracketCount = IF line.brace THEN @ + 1 ELSE @]

\* else if (line === '}' && inEntityDefinition)
EndOfEntity(st) ==
  LET count == IF st.entityBracketCount > 0 THEN st.entityBracketCount - 1
               ELSE st.entityBracketCount
  IN [st EXCEPT !.entityBracketCount = count,
                !.inEntityDefinition = IF count = 0 THEN FALSE ELSE @,
                !.currentEntity = IF count = 0 THEN NoEntity ELSE @]

\* else if (inEntityDefinition && currentEntity): a member-shaped line goes
\* to parseMember, any other line is a value of an enum
EntityBodyLine(st, line) ==
  LET kind == st.currentEntity.kind
      idx == st.currentEntity.idx
      list == ListOf(st.diagram, kind)
      entity == list[idx]
      r == parseMember(line, kind, entity)
      enumValue == LineText(line)
  IN IF isMemberDefinition(line)
     THEN [st EXCEPT !.diagram = WithList(@, kind, [list EXCEPT ![idx] = r.entity]),
                     !.threw = r.threw]
     ELSE IF HasField(kind, "values") /\ enumValue # <<>>
     THEN [st EXCEPT !.diagram =
             WithList(@, kind, [list EXCEPT ![idx].values = Append(@, enumValue)])]
     ELSE st

\* else if (!inEntityDefinition && this.isRelationship(line))
RelationshipLine(st, line) ==
  [st EXCEPT !.diagram.relationships = @ \o parseRelationship(line.s)]

\* one iteration of the loop of parse
ProcessLine(st, line) ==
  LET b == Branch(st, line) IN
  CASE b = "package" -> PackageDefinition(st, line)
    [] b = "endPackage" -> EndOfPackage(st)
    [] b = "entityStart" -> EntityDefinitionStart(st, line)
    [] b = "endEntity" -> EndOfEntity(st)
    [] b = "body" -> EntityBodyLine(st, line)
    [] b = "relationship" -> RelationshipLine(st, line)
    [] OTHER -> st

\* ----------------------------------------- the parser with one counter
\* the locals of the parse that counts every brace in bracketCount,
\* together with this.currentPackage; of the Diagram nothing is kept
SingleCounterState(cursor) ==
  [currentPackage |-> cursor, currentEntity |-> NoEntity,
   inEntityDefinition |-> FALSE, bracketCount |-> 0]

\* the branch of its if / else-if chain that a line takes
SingleCounterBranch(st, line) ==
  IF line.k = "blank" THEN "blank"
  ELSE IF line.k \in {"package", "packageOther"} THEN "package"
  ELSE IF line.k = "close" /\ st.bracketCount > 0 THEN "endPackage"
  ELSE IF isEntityDefinitionStart(line) THEN "entityStart"
  ELSE IF st.inEntityDefinition /\ line.k = "close" THEN "endEntity"
  ELSE IF st.inEntityDefinition /\ st.currentEntity # NoEntity THEN "body"
  ELSE IF line.k = "text" /\ isRelationship(line.s) THEN "relationship"
  ELSE "ignored"

\* one iteration of its loop
SingleCounterLine(st, line) ==
  LET b == SingleCounterBranch(st, line) IN
  CASE b = "package" /\ line.k = "package" ->
         [st EXCEPT !.currentPackage = line.name,
                    !.bracketCount = IF line.brace THEN @ + 1 ELSE @]
    [] b = "endPackage" ->
         [st EXCEPT !.bracketCount = @ - 1,
                    !.currentPackage = IF st.bracketCount - 1 = 0 THEN NULL
                                       ELSE @]
    [] b = "entityStart" ->
         [st EXCEPT !.currentEntity = EntityRef(line.kind, 0),
                    !.inEntityDefinition = TRUE,
                    !.bracketCount = IF line.brace THEN @ + 1 ELSE @]
    [] b = "endEntity" ->
         [st EXCEPT !.inEntityDefinition = FALSE,
                    !.currentEntity = NoEntity,
                    !.bracketCount = @ - 1]
    [] OTHER -> st

\* =========================================================== generators
\* the keys of the generators table the model follows: JavaGenerator, whose
\* text is modelled, and JavaScriptGenerator, the one without packages
Languages == {"java", "javascript"}

\* a JavaScriptGenerator that keeps the supportsPackages of BaseGenerator
supportsPackagesInherited(language) == TRUE

\* supportsPackages(): BaseGenerator returns true, JavaScriptGenerator false
supportsPackages(language) == language # "javascript"

\* Array.prototype.join
RECURSIVE Join(_, _)
Join(parts, sep) ==
  IF parts = <<>> THEN <<>>
  ELSE IF Len(parts) = 1 THEN parts[1]
  ELSE parts[1] \o sep \o Join(Tail(parts), sep)

\* BaseGenerator.findParentClass: <<the Class>> or <<>> for null / undefined
RECURSIVE FirstInheritance(_, _, _)
FirstInheritance(relationships, name, n) ==
  IF n > Len(relationships) THEN 0
  ELSE IF relationships[n].type = "inheritance"
          /\ relationships[n].sourceClass = name THEN n
  ELSE FirstInheritance(relationships, name, n + 1)

ClassNamed(classes, idx) == IF idx = 0 THEN <<>> ELSE <<classes[idx]>>

\* the parent taken from the first inheritance whose target is a class
findParentClassFirstDeclared(classObj, classDiagram) ==
  LET found == SelectSeq(classDiagram.relationships,
                 LAMBDA r : /\ r.type = "inheritance"
                            /\ r.sourceClass = classObj.name
                            /\ FindIndex(classDiagram.classes, r.targetClass) # 0)
  IN IF found = <<>> THEN <<>>
     ELSE ClassNamed(classDiagram.classes,
                     FindIndex(classDiagram.classes, found[1].targetClass))

findParentClass(classObj, classDiagram) ==
  IF FirstInheritance(classDiagram.relationships, classObj.name, 1) = 0 THEN <<>>
  ELSE ClassNamed(classDiagram.classes,
         FindIndex(classDiagram.classes,
           classDiagram.relationships[
             FirstInheritance(classDiagram.relationships, classObj.name, 1)
           ].targetClass))

\* BaseGenerator.findImplementedInterfaces
RECURSIVE ImplementedFrom(_, _, _)
ImplementedFrom(classDiagram, name, n) ==
  IF n > Len(classDiagram.relationships) THEN <<>>
  ELSE (IF classDiagram.relationships[n].type = "implementation"
           /\ classDiagram.relationships[n].sourceClass = name
        THEN ClassNamed(classDiagram.interfaces,
               FindIndex(classDiagram.interfaces,
                         classDiagram.relationships[n].targetClass))
        ELSE <<>>)
       \o ImplementedFrom(classDiagram, name, n + 1)

\* the first implemented interface only
findImplementedInterfacesFirstOnly(classObj, classDiagram) ==
  IF ImplementedFrom(classDiagram, classObj.name, 1) = <<>> THEN <<>>
  ELSE <<ImplementedFrom(classDiagram, classObj.name, 1)[1]>>

findImplementedInterfaces(classObj, classDiagram) ==
  ImplementedFrom(classDiagram, classObj.name, 1)

\* ----------------------------------------------------- JavaGenerator text
\* BaseGenerator.isComplexGenericType
isComplexGenericType(type) ==
  /\ type # NULL
  /\ type # <<>>
  /\ Includes(type, <<"<">>)
  /\ Includes(type, <<">">>)

\* BaseGenerator.extractBaseGenericType
extractBaseGenericType(type) ==
  IF ~isComplexGenericType(type) THEN type
  ELSE Trim(Split(type, <<"<">>)[1])

\* String.prototype.toLowerCase on the collection names mapJavaType knows
\* and on the language keys handed to transpile
toLowerCase(word) ==
  CASE word \in {"List", "LIST", "list"} -> "list"
    [] word \in {"Java", "JAVA", "java"} -> "java"
    [] word \in {"ArrayList", "arraylist"} -> "arraylist"
    [] word \in {"Map", "MAP", "map"} -> "map"
    [] word \in {"HashMap", "hashmap"} -> "hashmap"
    [] word \in {"Set", "SET", "set"} -> "set"
    [] word \in {"HashSet", "hashset"} -> "hashset"
    [] word \in {"Collection", "collection"} -> "collection"
    [] word \in {"Iterable", "iterable"} -> "iterable"
    [] OTHER -> word

\* the switch of JavaGenerator.mapJavaType over the lower-cased base type
MapCollectionType(baseType, lower) ==
  CASE lower = <<"list">> -> <<"List<Object>">>
    [] lower = <<"arraylist">> -> <<"ArrayList<Object>">>
    [] lower \in {<<"map">>, <<"hashmap">>} -> <<"Map<Object, Object>">>
    [] lower \in {<<"set">>, <<"hashset">>} -> <<"Set<Object>">>
    [] lower = <<"collection">> -> <<"Collection<Object>">>
    [] lower = <<"iterable">> -> <<"Iterable<Object>">>
    [] OTHER -> baseType \o <<"<Object>">>

LowerCased(word) == [n \in 1..Len(word) |-> toLowerCase(word[n])]

\* JavaGenerator.mapJavaType
mapJavaType(type) ==
  IF type = NULL \/ type = <<>> THEN <<"void">>
  ELSE IF isComplexGenericType(type)
  THEN MapCollectionType(extractBaseGenericType(type),
                         LowerCased(extractBaseGenericType(type)))
  ELSE type

\* BaseGenerator.generateEnhancedParamDoc
generateEnhancedParamDoc(paramName, paramType, mappedType) ==
  IF isComplexGenericType(paramType)
  THEN <<" * @param ">> \o paramName \o <<" ">> \o mappedType
       \o <<" parameter (original type: ">> \o paramType \o <<")">>
  ELSE <<" * @param ">> \o paramName \o <<" ">> \o paramType \o <<" parameter">>

\* BaseGenerator.generateEnhancedReturnDoc
generateEnhancedReturnDoc(returnType, mappedType) ==
  IF isComplexGenericType(returnType)
  THEN <<" * @return ">> \o mappedType \o <<" (original type: ">> \o returnType
       \o <<")">>
  ELSE <<" * @return ">> \o returnType

\* parameters.map(param => `${mapJavaType(param.type)} ${param.name}`).join(', ')
JavaParameters(parameters) ==
  Join([n \in 1..Len(parameters) |->
          mapJavaType(parameters[n].type) \o <<" ">> \o parameters[n].name],
       <<", ">>)

\* the documentation lines of the parameters of a method, each indented
RECURSIVE JavaParamDocs(_)
JavaParamDocs(parameters) ==
  IF parameters = <<>> THEN <<>>
  ELSE <<"    ">>
       \o generateEnhancedParamDoc(parameters[1].name, parameters[1].type,
                                   mapJavaType(parameters[1].type))
       \o <<"\n">> \o JavaParamDocs(Tail(parameters))

\* the return statement of a placeholder body
JavaReturn(returnType) ==
  IF returnType = <<"void">> THEN <<>>
  ELSE IF returnType = <<"boolean">> THEN <<"        return false;\n">>
  ELSE IF returnType \in {<<"int">>, <<"long">>, <<"float">>, <<"double">>}
  THEN <<"        return 0;\n">>
  ELSE IF returnType = <<"char">> THEN <<"        return ' ';\n">>
  ELSE IF returnType \in {<<"byte">>, <<"short">>} THEN <<"        return 0;\n">>
  ELSE <<"        return null;\n">>

\* JavaGenerator.generateClass: one method
JavaMethod(method) ==
  <<"    /**\n">>
  \o JavaParamDocs(method.parameters)
  \o (IF method.returnType # <<"void">>
      THEN <<"    ">>
           \o generateEnhancedReturnDoc(method.returnType,
                                        mapJavaType(method.returnType))
           \o <<"\n">>
      ELSE <<>>)
  \o <<"     */\n">>
  \o <<"    ", method.visibility, " ">>
  \o (IF method.isStatic THEN <<"static ">> ELSE <<>>)
  \o (IF method.isAbstract THEN <<"abstract ">> ELSE <<>>)
  \o mapJavaType(method.returnType) \o <<" ">> \o method.name \o <<"(">>
  \o JavaParameters(method.parameters)
  \o <<")">>
  \o (IF method.isAbstract THEN <<";\n\n">>
      ELSE <<" {\n", "        // TODO: Implement method\n">>
           \o JavaReturn(method.returnType)
           \o <<"    }\n\n">>)

\* JavaGenerator.generateClass: one attribute
JavaAttribute(attr) ==
  <<"    ", attr.visibility, " ">>
  \o (IF attr.isStatic THEN <<"static ">> ELSE <<>>)
  \o (IF attr.isFinal THEN <<"final ">> ELSE <<>>)
  \o mapJavaType(attr.type) \o <<" ">> \o attr.name \o <<";\n">>

\* the body of a constructor: super() when there is a parent class
JavaConstructorBody(hasParent) ==
  (IF hasParent THEN <<"        super();">> ELSE <<>>)
  \o <<"\n        // TODO: Implement constructor\n", "    }\n\n">>

\* JavaGenerator.generateClass: one declared constructor
JavaConstructor(constructor, name, hasParent) ==
  <<"    /**\n     * Constructor for ">> \o name \o <<"\n     */\n">>
  \o <<"    ", constructor.visibility, " ">> \o name \o <<"(">>
  \o JavaParameters(constructor.parameters)
  \o <<") {\n">>
  \o JavaConstructorBody(hasParent)

\* the constructor synthesized for a class that declares none
JavaDefaultConstructor(name, hasParent) ==
  <<"    /**\n     * Default constructor for ">> \o name \o <<"\n     */\n">>
  \o <<"    public ">> \o name \o <<"() {\n">>
  \o JavaConstructorBody(hasParent)

\* the text of each element of a list, one after the other
RECURSIVE JavaAttributes(_)
JavaAttributes(attributes) ==
  IF attributes = <<>> THEN <<>>
  ELSE JavaAttribute(attributes[1]) \o JavaAttributes(Tail(attributes))

RECURSIVE JavaConstructors(_, _, _)
JavaConstructors(constructors, name, hasParent) ==
  IF constructors = <<>> THEN <<>>
  ELSE JavaConstructor(constructors[1], name, hasParent)
       \o JavaConstructors(Tail(constructors), name, hasParent)

RECURSIVE JavaMethods(_)
JavaMethods(methods) ==
  IF methods = <<>> THEN <<>>
  ELSE JavaMethod(methods[1]) \o JavaMethods(Tail(methods))

\* the names of a list of entities
Names(entities) == [n \in 1..Len(entities) |-> entities[n].name]

\* the declaration line of a class: public [abstract] class Name[<generics>]
\* [extends Parent] [implements I, J] {
JavaClassDeclaration(classObj, parentClass, interfaces) ==
  <<IF classObj.isAbstract THEN "public abstract class " ELSE "public class ">>
  \o classObj.name
  \o (IF Len(classObj.generics) > 0
      THEN <<"<">> \o Join(classObj.generics, <<", ">>) \o <<">">> ELSE <<>>)
  \o (IF parentClass # <<>> THEN <<" extends ">> \o parentClass[1].name ELSE <<>>)
  \o (IF Len(interfaces) > 0
      THEN <<" implements ">> \o Join(Names(interfaces), <<", ">>) ELSE <<>>)
  \o <<" {\n">>

\* JavaGenerator.generateClass, given the parent and the interfaces it found
JavaClass(classObj, parentClass, interfaces) ==
  <<"/**\n * ">> \o classObj.name \o <<" class\n */\n">>
  \o JavaClassDeclaration(classObj, parentClass, interfaces)
  \o JavaAttributes(classObj.attributes)
  \o (IF Len(classObj.attributes) > 0 THEN <<"\n">> ELSE <<>>)
  \o (IF Len(classObj.constructors) > 0
      THEN JavaConstructors(classObj.constructors, classObj.name,
                            parentClass # <<>>)
      ELSE IF ~classObj.isAbstract
      THEN JavaDefaultConstructor(classObj.name, parentClass # <<>>)
      ELSE <<>>)
  \o JavaMethods(classObj.methods)
  \o <<"}\n\n">>

\* JavaGenerator.generateInterface: one method
JavaInterfaceMethod(method) ==
  <<"    /**\n">>
  \o JavaParamDocs(method.parameters)
  \o (IF method.returnType # <<"void">>
      THEN <<"    ">>
           \o generateEnhancedReturnDoc(method.returnType,
                                        mapJavaType(method.returnType))
           \o <<"\n">>
      ELSE <<>>)
  \o <<"     */\n">>
  \o <<"    ">> \o mapJavaType(method.returnType) \o <<" ">> \o method.name
  \o <<"(">> \o JavaParameters(method.parameters) \o <<");\n\n">>

RECURSIVE JavaInterfaceMethods(_)
JavaInterfaceMethods(methods) ==
  IF methods = <<>> THEN <<>>
  ELSE JavaInterfaceMethod(methods[1]) \o JavaInterfaceMethods(Tail(methods))

\* JavaGenerator.generateInterface
JavaInterface(interfaceObj) ==
  <<"/**\n * ">> \o interfaceObj.name \o <<" interface\n */\n">>
  \o <<"public interface ">> \o interfaceObj.name
  \o (IF Len(interfaceObj.generics) > 0
      THEN <<"<">> \o Join(interfaceObj.generics, <<", ">>) \o <<">">>
      ELSE <<>>)
  \o <<" {\n">>
  \o JavaInterfaceMethods(interfaceObj.methods)
  \o <<"}\n\n">>

\* this.indent(enumObj.values.join(',\n') + ';\n')
JavaEnumValues(values) ==
  <<"    ">> \o Join(values, <<",\n", "    ">>) \o <<";\n">>

\* JavaGenerator.generateEnum
JavaEnum(enumObj) ==
  <<"/**\n * ">> \o enumObj.name \o <<" enum\n */\n">>
  \o <<"public enum ">> \o enumObj.name \o <<" {\n">>
  \o (IF Len(enumObj.values) > 0 THEN JavaEnumValues(enumObj.values) ELSE <<>>)
  \o <<"}\n\n">>

\* --------------------------------------------------- BaseGenerator.generate
\* a piece that generate appends to code: the hook that returned it, the
\* name the hook was called with, and for an entity hook the place of the
\* entity in its list
Chunk(hook, name, idx) == [hook |-> hook, name |-> name, idx |-> idx]

\* property names that are array indices: for ... in visits them first, in
\* ascending numeric order, and the other names after them in creation order
IndexKeys == {"0", "1", "2", "10"}

IndexValue(key) ==
  CASE key = "0" -> 0
    [] key = "1" -> 1
    [] key = "2" -> 2
    [] key = "10" -> 10

IsArrayIndex(name) == Len(name) = 1 /\ name[1] \in IndexKeys

RECURSIVE AscendingKeys(_, _)
AscendingKeys(packages, positions) ==
  IF positions = {} THEN <<>>
  ELSE LET least == CHOOSE n \in positions : \A m \in positions :
                      IndexValue(packages[n].name[1])
                        <= IndexValue(packages[m].name[1])
       IN <<packages[least]>> \o AscendingKeys(packages, positions \ {least})

IsStringKey(package) == ~IsArrayIndex(package.name)

\* for (const packageName in classDiagram.packages)
ForIn(packages) ==
  AscendingKeys(packages,
                {n \in 1..Len(packages) : IsArrayIndex(packages[n].name)})
  \o SelectSeq(packages, IsStringKey)

\* the loop body without its last test: generateEnum is handed whatever
\* enums.find returned
MemberChunkUnguarded(classDiagram, className) ==
  IF FindIndex(classDiagram.classes, className) # 0
  THEN <<Chunk("generateClass", className,
               FindIndex(classDiagram.classes, className))>>
  ELSE IF FindIndex(classDiagram.interfaces, className) # 0
  THEN <<Chunk("generateInterface", className,
               FindIndex(classDiagram.interfaces, className))>>
  ELSE <<Chunk("generateEnum", className,
               FindIndex(classDiagram.enums, className))>>

\* the body of the loop over the members of a package: the first of
\* classes.find, interfaces.find, enums.find that finds the name decides
MemberChunk(classDiagram, className) ==
  IF FindIndex(classDiagram.classes, className) # 0
  THEN <<Chunk("generateClass", className,
               FindIndex(classDiagram.classes, className))>>
  ELSE IF FindIndex(classDiagram.interfaces, className) # 0
  THEN <<Chunk("generateInterface", className,
               FindIndex(classDiagram.interfaces, className))>>
  ELSE IF FindIndex(classDiagram.enums, className) # 0
  THEN <<Chunk("generateEnum", className,
               FindIndex(classDiagram.enums, className))>>
  ELSE <<>>

RECURSIVE MemberChunks(_, _)
MemberChunks(classDiagram, members) ==
  IF members = <<>> THEN <<>>
  ELSE MemberChunk(classDiagram, members[1])
       \o MemberChunks(classDiagram, Tail(members))

\* one iteration of the loop over the packages
PackageSection(classDiagram, package) ==
  <<Chunk("generatePackageStart", package.name, 0)>>
  \o MemberChunks(classDiagram, package.members)
  \o <<Chunk("generatePackageEnd", package.name, 0)>>

RECURSIVE PackageSections(_, _)
PackageSections(classDiagram, packages) ==
  IF packages = <<>> THEN <<>>
  ELSE PackageSection(classDiagram, packages[1])
       \o PackageSections(classDiagram, Tail(packages))

\* the Set entitiesInPackages of generateEntitiesWithoutPackage
entitiesInPackages(classDiagram) ==
  UNION {Range(classDiagram.packages[n].members) :
           n \in 1..Len(classDiagram.packages)}

\* a loop of generateEntitiesWithoutPackage over one of the three lists
RECURSIVE WithoutPackage(_, _, _, _)
WithoutPackage(hook, entities, listed, n) ==
  IF n > Len(entities) THEN <<>>
  ELSE (IF entities[n].name \notin listed
        THEN <<Chunk(hook, entities[n].name, n)>> ELSE <<>>)
       \o WithoutPackage(hook, entities, listed, n + 1)

\* a generator that drops what generateEntitiesWithoutPackage returns
generateEntitiesWithoutPackageDropped(classDiagram, code) == code

\* BaseGenerator.generateEntitiesWithoutPackage
generateEntitiesWithoutPackage(classDiagram, code) ==
  code
  \o WithoutPackage("generateClass", classDiagram.classes,
                    entitiesInPackages(classDiagram), 1)
  \o WithoutPackage("generateInterface", classDiagram.interfaces,
                    entitiesInPackages(classDiagram), 1)
  \o WithoutPackage("generateEnum", classDiagram.enums,
                    entitiesInPackages(classDiagram), 1)

\* for (const entity of entities) code += hook(entity, classDiagram)
AllOf(hook, entities) ==
  [n \in 1..Len(entities) |-> Chunk(hook, entities[n].name, n)]

\* the else branch of generate: every entity, whatever the packages hold
generateAllEntities(classDiagram, code) ==
  code
  \o AllOf("generateClass", classDiagram.classes)
  \o AllOf("generateInterface", classDiagram.interfaces)
  \o AllOf("generateEnum", classDiagram.enums)

\* BaseGenerator.generate: the pieces of the returned string, in order
generate(language, classDiagram) ==
  (IF supportsPackages(language)
   THEN generateEntitiesWithoutPackage(classDiagram,
          <<Chunk("generateHeader", <<>>, 0)>>
          \o PackageSections(classDiagram, ForIn(classDiagram.packages)))
   ELSE generateAllEntities(classDiagram, <<Chunk("generateHeader", <<>>, 0)>>))
  \o <<Chunk("generateFooter", <<>>, 0)>>

\* what the hook of JavaGenerator returns for a piece
JavaText(chunk, classDiagram) ==
  CASE chunk.hook = "generateHeader" ->
         <<"// Generated Java code from PlantUML class diagram\n\n">>
    [] chunk.hook = "generatePackageStart" ->
         <<"package ">> \o chunk.name \o <<";\n\n">>
    [] chunk.hook = "generatePackageEnd" -> <<"\n">>
    [] chunk.hook = "generateClass" ->
         JavaClass(classDiagram.classes[chunk.idx],
                   findParentClass(classDiagram.classes[chunk.idx], classDiagram),
                   findImplementedInterfaces(classDiagram.classes[chunk.idx],
                                             classDiagram))
    [] chunk.hook = "generateInterface" ->
         JavaInterface(classDiagram.interfaces[chunk.idx])
    [] chunk.hook = "generateEnum" -> JavaEnum(classDiagram.enums[chunk.idx])
    [] OTHER -> <<>>

\* the string JavaGenerator.generate returns
RECURSIVE JavaCode(_, _)
JavaCode(code, classDiagram) ==
  IF code = <<>> THEN <<>>
  ELSE JavaText(code[1], classDiagram) \o JavaCode(Tail(code), classDiagram)

\* ----------------------------------------------- JavaScriptGenerator text
\* the names of the parameters, joined:  constructor.parameters.map(p =>
\* p.name).join(', ')
JavaScriptParameters(parameters) == Join(Names(parameters), <<", ">>)

\* this.<name> = <value>;  for each name, indented two levels
RECURSIVE JavaScriptAssignments(_, _)
JavaScriptAssignments(names, fromParameter) ==
  IF names = <<>> THEN <<>>
  ELSE <<"    this.">> \o names[1] \o <<" = ">>
       \o (IF fromParameter THEN names[1] ELSE <<"null">>) \o <<";", "\n">>
       \o JavaScriptAssignments(Tail(names), fromParameter)

\* classObj.attributes.filter(a => a.isStatic), or the others
StaticFilter(attributes, isStatic) ==
  SelectSeq(attributes, LAMBDA a : a.isStatic = isStatic)

\* JavaScriptGenerator.generateClass: the constructor, the first declared one
\* or else the default one
JavaScriptConstructor(classObj, parentClass) ==
  <<"  /**\n", "   * Constructor for ">> \o classObj.name \o <<"\n", "   */\n">>
  \o (IF Len(classObj.constructors) > 0
      THEN <<"  constructor(">>
           \o JavaScriptParameters(classObj.constructors[1].parameters)
           \o <<")", " {\n">>
           \o (IF parentClass # <<>> THEN <<"    super();", "\n">> ELSE <<>>)
           \o JavaScriptAssignments(
                Names(classObj.constructors[1].parameters), TRUE)
      ELSE <<"  constructor(", ")", " {\n">>
           \o (IF parentClass # <<>> THEN <<"    super();", "\n">> ELSE <<>>)
           \o JavaScriptAssignments(
                Names(StaticFilter(classObj.attributes, FALSE)), FALSE))
  \o <<"  }\n\n">>

\* the return statement of a placeholder body
JavaScriptReturn(returnType) ==
  IF returnType = <<"void">> THEN <<>>
  ELSE IF returnType = <<"boolean">> THEN <<"    return false;", "\n">>
  ELSE IF returnType \in {<<"int">>, <<"long">>, <<"float">>, <<"double">>}
  THEN <<"    return 0;", "\n">>
  ELSE IF returnType = <<"string">> THEN <<"    return \"\";", "\n">>
  ELSE <<"    return null;", "\n">>

\* the @param lines of the documentation of a method
RECURSIVE JavaScriptParamDocs(_)
JavaScriptParamDocs(parameters) ==
  IF parameters = <<>> THEN <<>>
  ELSE <<"   * @param {*} ">> \o parameters[1].name \o <<" - ">>
       \o parameters[1].type \o <<" parameter\n">>
       \o JavaScriptParamDocs(Tail(parameters))

\* JavaScriptGenerator.generateClass: one method
JavaScriptMethod(method) ==
  <<"  /**\n", "   * ">> \o method.name \o <<" method\n">>
  \o JavaScriptParamDocs(method.parameters)
  \o (IF method.returnType # <<"void">>
      THEN <<"   * @returns {*} ">> \o method.returnType \o <<"\n">>
      ELSE <<>>)
  \o <<"   */\n">>
  \o (IF method.isStatic THEN <<"  static ">> ELSE <<"  ">>)
  \o method.name \o <<"(">>
  \o JavaScriptParameters(method.parameters)
  \o <<")", " {\n">>
  \o <<"    // TODO: Implement method", "\n">>
  \o JavaScriptReturn(method.returnType)
  \o <<"  }\n\n">>

RECURSIVE JavaScriptMethods(_)
JavaScriptMethods(methods) ==
  IF methods = <<>> THEN <<>>
  ELSE JavaScriptMethod(methods[1]) \o JavaScriptMethods(Tail(methods))

\* the static properties, which follow the class
RECURSIVE JavaScriptStatics(_, _)
JavaScriptStatics(name, attributes) ==
  IF attributes = <<>> THEN <<>>
  ELSE <<"// Static property\n">> \o name \o <<".">> \o attributes[1].name
       \o <<" = null;\n">> \o JavaScriptStatics(name, Tail(attributes))

\* JavaScriptGenerator.generateClass, given the parent it found
JavaScriptClass(classObj, parentClass) ==
  <<"/**\n * ">> \o classObj.name \o <<" class\n */\n">>
  \o <<"class ">> \o classObj.name
  \o (IF parentClass # <<>> THEN <<" extends ">> \o parentClass[1].name ELSE <<>>)
  \o <<" {\n">>
  \o JavaScriptConstructor(classObj, parentClass)
  \o JavaScriptMethods(classObj.methods)
  \o (IF StaticFilter(classObj.attributes, TRUE) # <<>>
      THEN <<"}\n\n">>
           \o JavaScriptStatics(classObj.name,
                                StaticFilter(classObj.attributes, TRUE))
      ELSE <<"}\n\n">>)

\* ======================================================= parser machine
VARIABLES
  currentPackage,       \* this.currentPackage: it outlives a call of parse
  currentEntity,        \* the locals of parse
  inEntityDefinition,
  packageBracketCount,
  entityBracketCount,
  diagram,
  pc,                   \* "idle", "parsing", "returned" or "threw"
  text,                 \* the lines handed to the current call
  i,                    \* the lines of text the loop has processed
  replay,               \* the last call parsed the text of the call before
  prev,                 \* the Diagram the previous call returned
  relLine,              \* a relationship line the loop of parse reads
  relationships,        \* diagram.relationships after that line
  rpc,                  \* "idle", "line" or "done"
  plantUmlCode,         \* the arguments of transpile
  targetLanguage,
  parsed,               \* the classDiagram handed to generate
  output,               \* the pieces of the string generate returns
  javaCode,             \* the string itself, for JavaGenerator
  error,                \* the message of the error transpile raised
  tpc,                  \* "idle", "called", "rejected", "parsed", "threw",
                        \* "generated", "raised" or "failed"
  memberLine,           \* a line the loop of parse reads in an entity body
  ownerKind,            \* the kind of the entity the body belongs to
  owner,                \* that entity, as the diagram holds it
  mpc,                  \* "idle", "line", "done" or "threw"
  generator,            \* the key of the generator whose generateClass runs
  classObj,             \* the arguments of generateClass
  classDiagram,
  parentClass,          \* the locals of generateClass
  classInterfaces,
  classCode,            \* the string generateClass returns
  hpc,                  \* "idle", "called" or "returned"
  single                \* the locals of the one-counter parse of text

parserVars ==
  <<currentPackage, currentEntity, inEntityDefinition, packageBracketCount,
    entityBracketCount, diagram, pc, text, i, replay, prev>>

relVars == <<relLine, relationships, rpc>>

genVars ==
  <<plantUmlCode, targetLanguage, parsed, output, javaCode, error, tpc>>

memberVars == <<memberLine, ownerKind, owner, mpc>>

classVars ==
  <<generator, classObj, classDiagram, parentClass, classInterfaces,
    classCode, hpc>>

vars == <<parserVars, relVars, genVars, memberVars, classVars, single>>

\* no relationship line is being looked at
RelIdle == relLine = <<>> /\ relationships = <<>> /\ rpc = "idle"

\* no call of transpile or generate is under way
GenIdle ==
  /\ plantUmlCode = <<>>
  /\ targetLanguage = "java"
  /\ parsed = ClassDiagram
  /\ output = <<>>
  /\ javaCode = <<>>
  /\ error = <<>>
  /\ tpc = "idle"

\* no call of generateClass is under way
ClassIdle ==
  /\ generator = "java"
  /\ classObj = Class(Str("A"), FALSE, NULL)
  /\ classDiagram = ClassDiagram
  /\ parentClass = <<>>
  /\ classInterfaces = <<>>
  /\ classCode = <<>>
  /\ hpc = "idle"

\* the one-counter parser has read nothing
SingleIdle == single = SingleCounterState(NULL)

\* no body line is being looked at
MemberIdle ==
  /\ memberLine = BlankLine
  /\ ownerKind = "class"
  /\ owner = Class(Str("A"), FALSE, NULL)
  /\ mpc = "idle"

\* new PlantUMLParser(), no call of parse yet
ParserIdle ==
  /\ currentPackage = NULL
  /\ currentEntity = NoEntity
  /\ inEntityDefinition = FALSE
  /\ packageBracketCount = 0
  /\ entityBracketCount = 0
  /\ diagram = ClassDiagram
  /\ pc = "idle"
  /\ text = <<>>
  /\ i = 0
  /\ replay = FALSE
  /\ prev = ClassDiagram

\* the lines the texts of the model are made of:
\*   package p {      package " "    }      (blank)
\*   class A {        interface I    enum E {
\*   +m()             V              A --|> I
Lines ==
  { PackageLine(Str("p"), TRUE),
    PackageLine(<<>>, FALSE),
    CloseLine,
    BlankLine,
    EntityLine("class", Str("A"), FALSE, TRUE),
    EntityLine("interface", Str("I"), FALSE, FALSE),
    EntityLine("enum", Str("E"), FALSE, TRUE),
    MemberLine(<<>>, "+", <<>>, Str("m"), TRUE, <<>>, <<>>),
    MemberLine(<<>>, "", <<>>, Str("V"), FALSE, <<>>, <<>>),
    TextLine(<<"A", " ", "-", "-", "|", ">", " ", "I">>) }

\* parse as one step: the loop over the lines text[n], text[n + 1], ...,
\* which a raising parseMember ends
RECURSIVE ParseLoop(_, _, _)
ParseLoop(st, lines, n) ==
  IF n > Len(lines) \/ st.threw THEN st
  ELSE ParseLoop(ProcessLine(st, lines[n]), lines, n + 1)

\* the state of the loop, as the record the loop operators work on
St ==
  [currentPackage |-> currentPackage, currentEntity |-> currentEntity,
   inEntityDefinition |-> inEntityDefinition,
   packageBracketCount |-> packageBracketCount,
   entityBracketCount |-> entityBracketCount, diagram |-> diagram,
   threw |-> FALSE]

Assign(st) ==
  /\ currentPackage' = st.currentPackage
  /\ currentEntity' = st.currentEntity
  /\ inEntityDefinition' = st.inEntityDefinition
  /\ packageBracketCount' = st.packageBracketCount
  /\ entityBracketCount' = st.entityBracketCount
  /\ diagram' = st.diagram

\* the lines the loop may read next
NextLines == IF Len(text) < MaxLines THEN Lines ELSE {}

\* the loop reads a line that takes the branch b
Iterate(b, line) ==
  /\ pc = "parsing"
  /\ line \in NextLines
  /\ Branch(St, line) = b
  /\ \E st \in {ProcessLine(St, line)} :
       /\ Assign(st)
       /\ pc' = IF st.threw THEN "threw" ELSE "parsing"
  /\ text' = Append(text, line)
  /\ i' = i + 1
  /\ UNCHANGED <<replay, prev, relVars, genVars, memberVars, classVars, single>>

\* new PlantUMLParser()
Init == ParserIdle /\ RelIdle /\ GenIdle /\ MemberIdle /\ ClassIdle /\ SingleIdle

\* parse(plantUmlCode) is called with a new text: a new Diagram and new
\* locals, and the cursor the previous call left
ParseCall ==
  /\ pc \in {"idle", "returned", "threw"}
  /\ Assign(ParseState(currentPackage))
  /\ pc' = "parsing"
  /\ text' = <<>>
  /\ i' = 0
  /\ replay' = FALSE
  /\ prev' = ClassDiagram
  /\ UNCHANGED <<relVars, genVars, memberVars, classVars, single>>

\* parse is called again on the same instance with the text it just
\* parsed, and runs to its end: prev keeps the Diagram of the first call
ParseAgain ==
  /\ pc = "returned"
  /\ ~replay
  /\ \E st \in {ParseLoop(ParseState(currentPackage), text, 1)} :
       /\ Assign(st)
       /\ pc' = IF st.threw THEN "threw" ELSE "returned"
  /\ replay' = TRUE
  /\ prev' = diagram
  /\ UNCHANGED <<text, i, relVars, genVars, memberVars, classVars, single>>

\* if (line.length === 0) continue;
SkipBlankLine == \E line \in NextLines : Iterate("blank", line)

PackageStep == \E line \in NextLines : Iterate("package", line)

EndOfPackageStep == \E line \in NextLines : Iterate("endPackage", line)

EntityStartStep == \E line \in NextLines : Iterate("entityStart", line)

EndOfEntityStep == \E line \in NextLines : Iterate("endEntity", line)

\* a line of an entity body; parseMember may raise, which ends the call
EntityBodyStep == \E line \in NextLines : Iterate("body", line)

RelationshipStep == \E line \in NextLines : Iterate("relationship", line)

\* a line no branch takes
IgnoredStep == \E line \in NextLines : Iterate("ignored", line)

\* the loop is past the last line: return diagram
ParseReturn ==
  /\ pc = "parsing"
  /\ pc' = "returned"
  /\ UNCHANGED <<currentPackage, currentEntity, inEntityDefinition,
                 packageBracketCount, entityBracketCount, diagram, text, i,
                 replay, prev, relVars, genVars, memberVars, classVars, single>>

Next ==
  \/ ParseCall
  \/ ParseAgain
  \/ SkipBlankLine
  \/ PackageStep
  \/ EndOfPackageStep
  \/ EntityStartStep
  \/ EndOfEntityStep
  \/ EntityBodyStep
  \/ RelationshipStep
  \/ IgnoredStep
  \/ ParseReturn

Spec == Init /\ [][Next]_vars

\* ================================================= relationship lines
\* the operands and the white space of the lines  left arrow right
Operands == {<<"A">>, <<"B">>}

Spaces == {<<>>, <<" ">>}

RelText(left, before, arrow, after, right) ==
  left \o before \o arrow \o after \o right

\* every arrow between two names, with and without white space around it,
\* and the lines whose left operand is missing
RelTexts ==
  {RelText(left, before, arrow, after, right) :
     left \in Operands \cup {<<>>}, before \in Spaces, arrow \in ArrowTokens,
     after \in Spaces, right \in Operands}

InitRel ==
  /\ ParserIdle
  /\ GenIdle
  /\ MemberIdle
  /\ ClassIdle
  /\ SingleIdle
  /\ relLine \in RelTexts
  /\ relationships = <<>>
  /\ rpc = "line"

\* else if (this.isRelationship(line)) { ... } of parse, on an empty Diagram
RelationshipBranch ==
  /\ rpc = "line"
  /\ isRelationship(relLine)
  /\ relationships' = relationships \o parseRelationship(relLine)
  /\ rpc' = "done"
  /\ UNCHANGED <<relLine, parserVars, genVars, memberVars, classVars, single>>

\* parseRelationship returned a Relationship, which is pushed
RelationshipPushed == RelationshipBranch /\ parseRelationship(relLine) # <<>>

\* parseRelationship returned null
RelationshipDropped == RelationshipBranch /\ parseRelationship(relLine) = <<>>

NextRel == RelationshipPushed \/ RelationshipDropped

SpecRel == InitRel /\ [][NextRel]_vars

\* ============================================================ generate
MaxMembers == 2

\* the Diagrams handed to generate: classes A and B, an interface I or one
\* that shares the name A, an enum E, and up to two packages p and 1 whose
\* member lists hold A, I, E and Z, a name no entity has
ClassLists ==
  {<<>>, <<Class(Str("A"), FALSE, NULL)>>,
   <<Class(Str("A"), FALSE, NULL), Class(Str("B"), FALSE, NULL)>>,
   <<Class(Str("B"), FALSE, NULL), Class(Str("A"), FALSE, NULL)>>}

InterfaceLists ==
  {<<>>, <<Interface(Str("I"), NULL)>>, <<Interface(Str("A"), NULL)>>}

EnumLists == {<<>>, <<Enum(Str("E"), NULL)>>}

MemberNames == {Str("A"), Str("I"), Str("E"), Str("Z")}

MemberLists == UNION {[1..n -> MemberNames] : n \in 0..MaxMembers}

Package(name, members) == [name |-> name, members |-> members]

PackageKeys == {Str("p"), Str("1")}

\* the member lists of a second package: at most one name
ShortMemberLists == {<<>>} \cup {<<name>> : name \in MemberNames}

PackageLists ==
  {<<>>}
  \cup {<<Package(name, members)>> : name \in PackageKeys, members \in MemberLists}
  \cup {<<Package(keys[1], members), Package(keys[2], others)>> :
          keys \in {k \in PackageKeys \X PackageKeys : k[1] # k[2]},
          members \in MemberLists, others \in ShortMemberLists}

Diagrams ==
  {[classes |-> classes, interfaces |-> interfaces, enums |-> enums,
    relationships |-> <<>>, packages |-> packages] :
     classes \in ClassLists, interfaces \in InterfaceLists,
     enums \in EnumLists, packages \in PackageLists}

\* the texts handed to transpile.  A hierarchy: class C, class P and
\* interface I, each with an empty body, and one or two lines  X arrow Y
\* over the four inheritance and implementation arrows
Declarations ==
  <<EntityLine("class", Str("C"), FALSE, TRUE), CloseLine,
    EntityLine("class", Str("P"), FALSE, TRUE), CloseLine,
    EntityLine("interface", Str("I"), FALSE, TRUE), CloseLine>>

Declared == {<<"C">>, <<"P">>, <<"I">>}

ArrowLine(left, arrow, right) ==
  TextLine(RelText(left, <<" ">>, arrow, <<" ">>, right))

ArrowLines ==
  {ArrowLine(left, arrow, right) :
     left \in Declared, arrow \in {T_inh, T_inh_rev, T_impl, T_impl_rev},
     right \in Declared}

HierarchySources ==
  {Declarations \o <<first>> : first \in ArrowLines}
  \cup {Declarations \o <<first, second>> :
          first \in ArrowLines, second \in ArrowLines}

\* the text of the test of the transpiler, after sanitizeInput:
\*   class User {  /  -id: int  /  +getName(): String  /  }
\* between blank lines, with other visibilities and types, and with or
\* without a class A in a package p before it
Visibilities == {"+", "-", "#", "~"}

ListOfString == <<"List", "<", "String", ">">>

AttributeTypes == {Str("int"), Str("String"), ListOfString}

ReturnTypes ==
  {Str("int"), Str("String"), Str("boolean"), Str("char"), Str("Date"), <<>>}

UserClass(attrVis, attrType, methodVis, methodType) ==
  <<EntityLine("class", Str("User"), FALSE, TRUE),
    MemberLine(<<>>, attrVis, <<>>, Str("id"), FALSE, <<>>, attrType),
    MemberLine(<<>>, methodVis, <<>>, Str("getName"), TRUE, <<>>, methodType),
    CloseLine>>

PackagedClass ==
  <<PackageLine(Str("p"), TRUE), EntityLine("class", Str("A"), FALSE, TRUE),
    CloseLine, CloseLine>>

UserSource(before, attrVis, attrType, methodVis, methodType) ==
  <<BlankLine>> \o before
  \o UserClass(attrVis, attrType, methodVis, methodType) \o <<BlankLine>>

UserSources ==
  {UserSource(before, attrVis, attrType, methodVis, methodType) :
     before \in {<<>>, PackagedClass}, attrVis \in Visibilities,
     attrType \in AttributeTypes, methodVis \in Visibilities,
     methodType \in ReturnTypes}

Sources == HierarchySources \cup UserSources \cup {<<BlankLine>>}

\* Object.keys(this.generators): getSupportedLanguages()
SupportedLanguages ==
  {"java", "csharp", "python", "ruby", "kotlin", "javascript", "typescript"}

\* this.generators[language]: a generator, a value inherited from
\* Object.prototype, or undefined
GeneratorAt(language) ==
  IF language \in SupportedLanguages THEN "generator"
  ELSE IF language \in InheritedKeys THEN "inherited"
  ELSE "undefined"

\* the keys transpile is called with
TargetKeys == {"java", "Java", "cobol", "constructor"}

\* generate(classDiagram) is called on a Diagram
InitGenerate ==
  /\ plantUmlCode = <<>>
  /\ targetLanguage \in Languages
  /\ parsed \in Diagrams
  /\ tpc = "parsed"

\* new PlantUMLTranspiler().transpile(plantUmlCode, targetLanguage) is called
InitTranspile ==
  /\ plantUmlCode \in Sources
  /\ targetLanguage \in TargetKeys
  /\ parsed = ClassDiagram
  /\ tpc = "called"

InitGen ==
  /\ ParserIdle
  /\ RelIdle
  /\ MemberIdle
  /\ ClassIdle
  /\ SingleIdle
  /\ output = <<>>
  /\ javaCode = <<>>
  /\ error = <<>>
  /\ InitGenerate \/ InitTranspile

\* plantUmlCode.trim() === ''
IsEmptyCode(lines) == \A n \in 1..Len(lines) : lines[n] = BlankLine

\* throw new Error('PlantUML code cannot be empty')
TranspileRejects ==
  /\ tpc = "called"
  /\ IsEmptyCode(plantUmlCode)
  /\ tpc' = "rejected"
  /\ error' = <<"PlantUML code cannot be empty">>
  /\ UNCHANGED <<plantUmlCode, targetLanguage, parsed, output, javaCode,
                 parserVars, relVars, memberVars, classVars, single>>

\* throw new Error(`Unsupported target language: ${targetLanguage}`)
TranspileUnsupported ==
  /\ tpc = "called"
  /\ ~IsEmptyCode(plantUmlCode)
  /\ GeneratorAt(toLowerCase(targetLanguage)) = "undefined"
  /\ tpc' = "rejected"
  /\ error' = <<"Unsupported target language: ", targetLanguage>>
  /\ UNCHANGED <<plantUmlCode, targetLanguage, parsed, output, javaCode,
                 parserVars, relVars, memberVars, classVars, single>>

\* const classDiagram = this.parser.parse(plantUmlCode)
TranspileParse ==
  /\ tpc = "called"
  /\ ~IsEmptyCode(plantUmlCode)
  /\ GeneratorAt(toLowerCase(targetLanguage)) # "undefined"
  /\ \E st \in {ParseLoop(ParseState(NULL), plantUmlCode, 1)} :
       /\ parsed' = st.diagram
       /\ tpc' = IF st.threw THEN "threw" ELSE "parsed"
       /\ error' = IF st.threw
                   THEN <<"Cannot read properties of undefined (reading 'push')">>
                   ELSE <<>>
  /\ UNCHANGED <<plantUmlCode, targetLanguage, output, javaCode, parserVars,
                 relVars, memberVars, classVars, single>>

\* an entity hook handed undefined reads a property of it and raises
Raises(code) ==
  \E n \in 1..Len(code) :
    /\ code[n].hook \in {"generateClass", "generateInterface", "generateEnum"}
    /\ code[n].idx = 0

\* this.generators[language].generate(classDiagram)
Generate ==
  /\ tpc = "parsed"
  /\ GeneratorAt(toLowerCase(targetLanguage)) = "generator"
  /\ \E code \in {generate(toLowerCase(targetLanguage), parsed)} :
       /\ output' = code
       /\ javaCode' = IF toLowerCase(targetLanguage) = "java" /\ ~Raises(code)
                      THEN JavaCode(code, parsed) ELSE <<>>
       /\ tpc' = IF Raises(code) THEN "raised" ELSE "generated"
       /\ error' = IF Raises(code)
                   THEN <<"Cannot read properties of undefined (reading 'name')">>
                   ELSE <<>>
  /\ UNCHANGED <<plantUmlCode, targetLanguage, parsed, parserVars, relVars,
                 memberVars, classVars, single>>

\* generate in a generator with packages
GenerateWithPackages == supportsPackages(toLowerCase(targetLanguage)) /\ Generate

\* generate in a generator without packages
GenerateWithoutPackages ==
  ~supportsPackages(toLowerCase(targetLanguage)) /\ Generate

\* this.generators[language] is not a generator: calling its generate, which
\* is undefined, raises a TypeError
GenerateNotAFunction ==
  /\ tpc = "parsed"
  /\ GeneratorAt(toLowerCase(targetLanguage)) = "inherited"
  /\ tpc' = "failed"
  /\ error' = <<"this.generators[language].generate is not a function">>
  /\ UNCHANGED <<plantUmlCode, targetLanguage, parsed, output, javaCode,
                 parserVars, relVars, memberVars, classVars, single>>

NextGen ==
  \/ TranspileRejects
  \/ TranspileUnsupported
  \/ TranspileParse
  \/ GenerateWithPackages
  \/ GenerateWithoutPackages
  \/ GenerateNotAFunction

SpecGen == InitGen /\ [][NextGen]_vars

\* ======================================================== member lines
\* the longest parameter string tried character by character
MaxParamLen == 5

\* the {tag} runs a member line carries
TagRuns ==
  {<<>>, <<"static">>, <<"final">>, <<"abstract">>,
   <<"static", "final">>, <<"final", "static">>,
   <<"static", "abstract">>, <<"abstract", "static">>}

\* the tags before the visibility symbol and the tags after it
TagPlacements ==
  {p \in TagRuns \X TagRuns : p[1] \o p[2] \in TagRuns}

\* the characters parseParameters tells apart
ParamChars == {"a", ":", ",", "<", ">", " "}

\* the parameter string of the specification's example
NestedGenerics ==
  <<"a", ":", " ", "Map", "<", "String", ",", " ", "List", "<", "Integer",
    ">", ">", ",", " ", "b", ":", " ", "int">>

ParamStrings ==
  UNION {[1..n -> ParamChars] : n \in 0..MaxParamLen} \cup {NestedGenerics}

\* attribute, method and constructor lines of every shape
ShapedLines ==
  {MemberLine(p[1], vis, p[2], name, parens, params, type) :
     p \in TagPlacements,
     vis \in {"", "+", "-", "#", "~"},
     name \in {Str("A"), Str("m")},
     parens \in BOOLEAN,
     params \in {<<>>},
     type \in {<<>>, Str("int")}}

\* a method line for every parameter string
ParameterLines ==
  {MemberLine(<<>>, "+", <<>>, Str("m"), TRUE, params, <<>>) :
     params \in ParamStrings}

\* a line has its tags after the visibility symbol only if it has one, and
\* parameters only between parentheses
BodyLines ==
  {l \in ShapedLines : l.vis = "" => l.tags2 = <<>>} \cup ParameterLines

\* the entity a body line is read in:  class A {,  interface A {,  enum A {
Opened(kind) ==
  ProcessLine(ParseState(NULL), EntityLine(kind, Str("A"), FALSE, TRUE))

InitMember ==
  /\ ParserIdle
  /\ RelIdle
  /\ GenIdle
  /\ ClassIdle
  /\ SingleIdle
  /\ memberLine \in BodyLines
  /\ ownerKind \in {"class", "interface", "enum"}
  /\ memberLine \in ParameterLines => ownerKind = "class"
  /\ owner = ListOf(Opened(ownerKind).diagram, ownerKind)[1]
  /\ mpc = "line"

\* the iteration of the loop of parse that reads memberLine
BodyLineRead(threw) ==
  /\ mpc = "line"
  /\ \E st \in {ProcessLine(Opened(ownerKind), memberLine)} :
       /\ st.threw = threw
       /\ owner' = ListOf(st.diagram, ownerKind)[1]
       /\ mpc' = IF st.threw THEN "threw" ELSE "done"
  /\ UNCHANGED <<memberLine, ownerKind, parserVars, relVars, genVars,
                 classVars, single>>

\* parseMember returned
MemberParsed == isMemberDefinition(memberLine) /\ BodyLineRead(FALSE)

\* parseMember raised
MemberRaises == isMemberDefinition(memberLine) /\ BodyLineRead(TRUE)

\* the line went to the enum branch
NotAMember == ~isMemberDefinition(memberLine) /\ BodyLineRead(FALSE)

NextMember == MemberParsed \/ MemberRaises \/ NotAMember

SpecMember == InitMember /\ [][NextMember]_vars

\* ======================================================= generateClass
\* the longest list of relationships handed to generateClass
MaxRelationships == 2

Id == Attribute(Str("id"), Str("int"), "private", FALSE, FALSE)

Email == Attribute(Str("email"), Str("String"), "private", FALSE, FALSE)

AttributeLists == {<<>>, <<Id>>, <<Id, Email>>}

\* a constructor of class C with the parameters of the given names
Constructor(names) ==
  Method(Str("C"), NULL,
         [n \in 1..Len(names) |-> Parameter(names[n], Str("int"))],
         "public", FALSE, FALSE)

ConstructorLists ==
  {<<>>, <<Constructor(<<>>)>>, <<Constructor(<<Str("id")>>)>>,
   <<Constructor(<<Str("x")>>)>>,
   <<Constructor(<<>>), Constructor(<<Str("x")>>)>>}

Run == Method(Str("run"), Str("void"), <<>>, "public", FALSE, TRUE)

Stop == Method(Str("stop"), Str("int"), <<>>, "public", FALSE, FALSE)

MethodLists == {<<>>, <<Stop>>, <<Run, Stop>>}

\* class C with the given members
Shaped(isAbstract, attributes, constructors, methods) ==
  [Class(Str("C"), isAbstract, NULL) EXCEPT
     !.attributes = attributes, !.constructors = constructors,
     !.methods = methods]

ClassShapes ==
  {Shaped(isAbstract, attributes, constructors, methods) :
     isAbstract \in BOOLEAN, attributes \in AttributeLists,
     constructors \in ConstructorLists, methods \in MethodLists}

\* the relationships a diagram of classes C, P, Q and interfaces I, J can
\* hold; Z is declared nowhere
RelationshipSet ==
  {Relationship(src, tgt, type, <<>>) :
     src \in {Str("C"), Str("P")},
     tgt \in {Str("P"), Str("Q"), Str("I"), Str("J"), Str("Z")},
     type \in {"inheritance", "implementation", "association"}}

RelationshipLists ==
  UNION {[1..n -> RelationshipSet] : n \in 0..MaxRelationships}

\* the diagram that holds classObj and the given relationships
Hierarchy(class, relationshipList) ==
  [ClassDiagram EXCEPT
     !.classes = <<class, Class(Str("P"), FALSE, NULL),
                   Class(Str("Q"), FALSE, NULL)>>,
     !.interfaces = <<Interface(Str("I"), NULL), Interface(Str("J"), NULL)>>,
     !.relationships = relationshipList]

\* generate is about to call generateClass(classObj, classDiagram)
InitClass ==
  /\ ParserIdle
  /\ RelIdle
  /\ GenIdle
  /\ MemberIdle
  /\ SingleIdle
  /\ generator \in Languages
  /\ classObj \in ClassShapes
  /\ \E relationshipList \in RelationshipLists :
       /\ relationshipList # <<>> => classObj = Shaped(FALSE, <<>>, <<>>, <<>>)
       /\ classDiagram = Hierarchy(classObj, relationshipList)
  /\ parentClass = <<>>
  /\ classInterfaces = <<>>
  /\ classCode = <<>>
  /\ hpc = "called"

\* JavaGenerator.generateClass
JavaGenerateClass ==
  /\ hpc = "called"
  /\ generator = "java"
  /\ parentClass' = findParentClass(classObj, classDiagram)
  /\ classInterfaces' = findImplementedInterfaces(classObj, classDiagram)
  /\ classCode' = JavaClass(classObj, parentClass', classInterfaces')
  /\ hpc' = "returned"
  /\ UNCHANGED <<generator, classObj, classDiagram, parserVars, relVars,
                 genVars, memberVars, single>>

\* JavaScriptGenerator.generateClass, which looks for no interfaces
JavaScriptGenerateClass ==
  /\ hpc = "called"
  /\ generator = "javascript"
  /\ parentClass' = findParentClass(classObj, classDiagram)
  /\ classCode' = JavaScriptClass(classObj, parentClass')
  /\ hpc' = "returned"
  /\ UNCHANGED <<generator, classObj, classDiagram, classInterfaces,
                 parserVars, relVars, genVars, memberVars, single>>

NextClass == JavaGenerateClass \/ JavaScriptGenerateClass

SpecClass == InitClass /\ [][NextClass]_vars

\* ========================================================= two parsers
\* parse has been called on a new parser of each kind with the same text
InitCounters ==
  /\ currentPackage = NULL
  /\ currentEntity = NoEntity
  /\ inEntityDefinition = FALSE
  /\ packageBracketCount = 0
  /\ entityBracketCount = 0
  /\ diagram = ClassDiagram
  /\ pc = "parsing"
  /\ text = <<>>
  /\ i = 0
  /\ replay = FALSE
  /\ prev = ClassDiagram
  /\ RelIdle
  /\ GenIdle
  /\ MemberIdle
  /\ ClassIdle
  /\ SingleIdle

\* both loops read the next line of the text
BothRead ==
  /\ pc = "parsing"
  /\ \E line \in NextLines :
       /\ \E st \in {ProcessLine(St, line)} :
            /\ Assign(st)
            /\ pc' = IF st.threw THEN "threw" ELSE "parsing"
       /\ single' = SingleCounterLine(single, line)
       /\ text' = Append(text, line)
       /\ i' = i + 1
  /\ UNCHANGED <<replay, prev, relVars, genVars, memberVars, classVars>>

NextCounters == BothRead

SpecCounters == InitCounters /\ [][NextCounters]_vars

\* ============================================================ transpiler
\* the texts one PlantUMLTranspiler is called with, call after call:
\*   (blank)
\*   class A {  /  }
\*   interface I
\*   package p {  /  class A {  /  }  /  }
\*   package p {  /  class A {  /  }           the package is left open
\*   package p {                               the package is left open
\*   package constructor                       the package is left open
\*   package 1 {  /  enum E {  /  }            the package is left open
\*   class A {  /  }  /  class B {  /  }
\*   class User {  /  -id: int  /  +getName(): String  /  }
CallSources ==
  {<<BlankLine>>,
   <<EntityLine("class", Str("A"), FALSE, TRUE), CloseLine>>,
   <<EntityLine("interface", Str("I"), FALSE, FALSE)>>,
   PackagedClass,
   SubSeq(PackagedClass, 1, 3),
   <<PackageLine(Str("p"), TRUE)>>,
   <<PackageLine(Str("constructor"), FALSE)>>,
   <<PackageLine(Str("1"), TRUE), EntityLine("enum", Str("E"), FALSE, TRUE),
     CloseLine>>,
   <<EntityLine("class", Str("A"), FALSE, TRUE), CloseLine,
     EntityLine("class", Str("B"), FALSE, TRUE), CloseLine>>,
   UserClass("-", Str("int"), "+", Str("String"))}

\* the keys it is called with
CallKeys == {"java", "Java", "javascript", "cobol", "constructor"}

\* this.parser.currentPackage after a call that validated first
transpileCursorParsedFirst(rejected, cursor, parsedCursor) == parsedCursor

\* this.parser.currentPackage after a call: parse runs after the two tests
\* of transpile, so a rejected call leaves the cursor alone
transpileCursor(rejected, cursor, parsedCursor) ==
  IF rejected THEN cursor ELSE parsedCursor

\* the message of the TypeError that ends parse
ParseError(st) ==
  IF InheritedPackage(st.diagram.packages, st.currentPackage)
  THEN <<"diagram.packages[this.currentPackage].push is not a function">>
  ELSE <<"Cannot read properties of undefined (reading 'push')">>

\* a call of transpile(lines, key) on a transpiler whose parser holds the
\* cursor: how the call ends, what it returns, and the cursor it leaves
transpile(cursor, lines, key) ==
  LET language == toLowerCase(key)
      rejected == IsEmptyCode(lines) \/ GeneratorAt(language) = "undefined"
      st == ParseLoop(ParseState(cursor), lines, 1)
      pieces == generate(language, st.diagram)
      ended == [tpc |-> "rejected", error |-> <<>>, parsed |-> ClassDiagram,
                output |-> <<>>, javaCode |-> <<>>,
                cursor |-> transpileCursor(rejected, cursor, st.currentPackage)]
  IN IF IsEmptyCode(lines)
     THEN [ended EXCEPT !.error = <<"PlantUML code cannot be empty">>]
     ELSE IF GeneratorAt(language) = "undefined"
     THEN [ended EXCEPT !.error = <<"Unsupported target language: ", key>>]
     ELSE IF st.threw
     THEN [ended EXCEPT !.tpc = "threw", !.error = ParseError(st),
                        !.parsed = st.diagram]
     ELSE IF GeneratorAt(language) = "inherited"
     THEN [ended EXCEPT !.tpc = "failed", !.parsed = st.diagram,
             !.error = <<"this.generators[language].generate is not a function">>]
     ELSE [ended EXCEPT !.tpc = "generated", !.parsed = st.diagram,
                        !.output = pieces,
                        !.javaCode = IF language = "java"
                                     THEN JavaCode(pieces, st.diagram)
                                     ELSE <<>>]

\* new PlantUMLTranspiler()
InitCalls == Init

\* transpile(lines, key) is called on the transpiler, after whatever calls
\* came before, and runs to its end: a throw or a return
Transpile ==
  \E lines \in CallSources, key \in CallKeys :
    \E ended \in {transpile(currentPackage, lines, key)} :
      /\ plantUmlCode' = lines
      /\ targetLanguage' = key
      /\ tpc' = ended.tpc
      /\ error' = ended.error
      /\ parsed' = ended.parsed
      /\ output' = ended.output
      /\ javaCode' = ended.javaCode
      /\ currentPackage' = ended.cursor
      /\ UNCHANGED <<currentEntity, inEntityDefinition, packageBracketCount,
                     entityBracketCount, diagram, pc, text, i, replay, prev,
                     relVars, memberVars, classVars, single>>

NextCalls == Transpile

SpecCalls == InitCalls /\ [][NextCalls]_vars

\* ============================================================== claims
\* the line the loop has just read
LastLine == text[Len(text)]

\* C1: parse returns a Diagram and never raises, whatever the lines are and
\* whatever entity body a member-shaped line stands in.
C1_ParseNeverRaises == pc # "threw"

\* C2: parsing the same text twice on one instance gives equal Diagrams, and
\* the current-package cursor is null when a call of parse starts.
C2_ParseTwiceSameDiagram ==
  /\ (pc = "returned" /\ replay) => diagram = prev
  /\ (pc = "parsing" /\ i = 0) => currentPackage = NULL

\* an entity declared in state st belongs to no package
DeclaredOutsidePackages(st, line) ==
  LET after == EntityDefinitionStart(st, line)
      list == ListOf(after.diagram, line.kind)
  IN /\ list[Len(list)].packageName = NULL
     /\ after.diagram.packages = st.diagram.packages

EntityLines == {line \in Lines : isEntityDefinitionStart(line)}

\* a bare } read inside an entity leaves the package counter and the cursor
\* alone; a bare } read outside every entity with the package counter above 0
\* decrements it and clears the cursor exactly when it reaches 0
BareCloseRules ==
  /\ EndOfEntityStep =>
       /\ packageBracketCount' = packageBracketCount
       /\ currentPackage' = currentPackage
  /\ EndOfPackageStep =>
       /\ packageBracketCount' = packageBracketCount - 1
       /\ currentPackage' = IF packageBracketCount' = 0 THEN NULL
                            ELSE currentPackage

\* C3 as stated: the rules of the bare }, and after the closing } of a
\* package block every entity declared next has packageName null and is
\* listed in no package.
C3_AfterAnyPackageClose ==
  [][/\ BareCloseRules
     /\ EndOfPackageStep =>
          \A line \in EntityLines : DeclaredOutsidePackages(St', line)]_vars

\* C3 amended: the rules of the bare }, and after a closing } that brings
\* the package counter to 0 every entity declared before the next package
\* line has packageName null and is listed in no package.
C3_AfterOutermostPackageClose ==
  [][/\ BareCloseRules
     /\ (EndOfPackageStep /\ packageBracketCount' = 0) =>
          \A line \in EntityLines : DeclaredOutsidePackages(St', line)
     /\ (currentPackage = NULL /\ currentPackage' # NULL) => PackageStep]_vars

\* a package block that held an entity has been closed by its own }
C3_Witness ==
  /\ pc = "parsing"
  /\ Len(text) = 4
  /\ text[1] = PackageLine(Str("p"), TRUE)
  /\ isEntityDefinitionStart(text[2])
  /\ text[3] = CloseLine
  /\ text[4] = CloseLine
  /\ diagram.packages = <<[name |-> Str("p"), members |-> <<text[2].name>>]>>
  /\ packageBracketCount = 0
  /\ currentPackage = NULL

\* package p is open: the cursor names it and the Diagram lists it
PackageOpen(p) == currentPackage = p /\ p # NULL /\ HasPackage(diagram.packages, p)

\* the package names of the lines of the model: p and the empty name that
\* is left of a quoted blank
PackageNames == {line.name : line \in {l \in Lines : l.k = "package"}}

\* C7: the text  package "p" {  class A {  }  }  gives packages["p"] = ["A"]
\* and a Class A with packageName "p"; and every entity declared while a
\* package p is open is appended to packages[p] and carries packageName p.
C7_PackageRoundTrip ==
  [][/\ (/\ ParseReturn
         /\ text = <<PackageLine(Str("p"), TRUE),
                     EntityLine("class", Str("A"), FALSE, TRUE),
                     CloseLine, CloseLine>>) =>
          /\ diagram'.packages = <<[name |-> Str("p"), members |-> <<Str("A")>>]>>
          /\ diagram'.classes = <<Class(Str("A"), FALSE, Str("p"))>>
     /\ \A p \in PackageNames :
          (EntityStartStep /\ PackageOpen(p)) =>
            LET line == LastLine'
                list == ListOf(diagram', line.kind)
            IN /\ PackageMembers(diagram'.packages, p)
                    = Append(PackageMembers(diagram.packages, p), line.name)
               /\ list = Append(ListOf(diagram, line.kind), list[Len(list)])
               /\ list[Len(list)].name = line.name
               /\ list[Len(list)].packageName = p]_vars

\* ------------------------------------------- claims on relationship lines
\* the line has been read and the Diagram holds exactly the relationship
\* source -> target of the given type, without a label
Yields(source, target, type) ==
  relationships = <<Relationship(source, target, type, <<>>)>>

\* the line read is  left arrow right  with one space around the arrow
Read(left, arrow, right) ==
  rpc = "done" /\ relLine = RelText(left, <<" ">>, arrow, <<" ">>, right)

\* the line read is  left arrow right  with the given white space
ReadSpaced(left, before, arrow, after, right) ==
  rpc = "done" /\ relLine = RelText(left, before, arrow, after, right)

OwnerArrows ==
  {<<T_assoc, T_assoc_rev, "association">>, <<T_aggr, T_aggr_rev, "aggregation">>,
   <<T_comp, T_comp_rev, "composition">>, <<T_dep, T_dep_rev, "dependency">>}

\* C6: for association, aggregation, composition and dependency the lines
\* A forward B and B reverse A both yield the relationship A -> B of the
\* type; and a line whose arrow is o-->, <--o, *--> or <--*, whatever the
\* white space on the far side of the o or *, yields the aggregation or
\* composition between the two bare names
C6_OwnerSideIsSource ==
  \A a \in Operands, b \in Operands, arrows \in OwnerArrows :
    /\ Read(a, arrows[1], b) => Yields(a, b, arrows[3])
    /\ Read(b, arrows[2], a) => Yields(a, b, arrows[3])
    /\ arrows[3] \in {"aggregation", "composition"} =>
         \A far \in Spaces :
           /\ ReadSpaced(a, <<" ">>, arrows[1], far, b) => Yields(a, b, arrows[3])
           /\ ReadSpaced(b, far, arrows[2], <<" ">>, a) => Yields(a, b, arrows[3])

\* ------------------------------------------------ claims on generation
\* the declaration line of class name in the Java text: from
\* "public class name" up to the opening brace
DeclarationOf(name) ==
  SubSeq(javaCode,
         IndexOf(javaCode, <<"public class ">> \o name),
         IndexFrom(javaCode, <<" {\n">>,
                   IndexOf(javaCode, <<"public class ">> \o name)) - 1)

\* the relationship lines of the text transpile was called with
ArrowLinesOf(lines) == SubSeq(lines, Len(Declarations) + 1, Len(lines))

\* transpile has returned the Java text of a hierarchy that holds the line
Transpiled(line) ==
  /\ tpc = "generated"
  /\ plantUmlCode \in HierarchySources
  /\ line \in Range(ArrowLinesOf(plantUmlCode))

\* no other line of the text is an inheritance line
OnlyInheritance(line) ==
  \A other \in Range(ArrowLinesOf(plantUmlCode)) \ {line} :
    ~Includes(other.s, T_inh) /\ ~Includes(other.s, T_inh_rev)

ClassC == Class(Str("C"), FALSE, NULL)

ClassP == Class(Str("P"), FALSE, NULL)

InterfaceI == Interface(Str("I"), NULL)

LastPackageEnd(code) ==
  IF \E n \in 1..Len(code) : code[n].hook = "generatePackageEnd"
  THEN CHOOSE n \in 1..Len(code) :
         /\ code[n].hook = "generatePackageEnd"
         /\ \A m \in n + 1..Len(code) : code[m].hook # "generatePackageEnd"
  ELSE 1

\* the pieces between the package sections and the footer
AfterPackages(code) == SubSeq(code, LastPackageEnd(code) + 1, Len(code) - 1)

\* no package of the Diagram lists the name of the piece
InNoPackage(chunk) ==
  \A n \in 1..Len(parsed.packages) :
    chunk.name \notin Range(parsed.packages[n].members)

\* the entities of a list that no package lists, in declaration order
Unlisted(hook, entities) ==
  SelectSeq([n \in 1..Len(entities) |-> Chunk(hook, entities[n].name, n)],
            InNoPackage)

VisibilityWord(symbol) ==
  CASE symbol = "+" -> "public"
    [] symbol = "-" -> "private"
    [] symbol = "#" -> "protected"
    [] symbol = "~" -> "package"

JavaTypeOf(type) ==
  IF type = <<>> THEN <<"void">>
  ELSE IF type = ListOfString THEN <<"List<Object>">>
  ELSE type

C9_NoPackagesMeansEveryEntityOnce ==
  (tpc = "generated" /\ targetLanguage = "javascript") =>
    /\ \A n \in 1..Len(output) :
         output[n].hook \notin {"generatePackageStart", "generatePackageEnd"}
    /\ SubSeq(output, 2, Len(output) - 1) =
         [n \in 1..Len(parsed.classes) |->
            Chunk("generateClass", parsed.classes[n].name, n)]
         \o [n \in 1..Len(parsed.interfaces) |->
               Chunk("generateInterface", parsed.interfaces[n].name, n)]
         \o [n \in 1..Len(parsed.enums) |->
               Chunk("generateEnum", parsed.enums[n].name, n)]

\* the packages list A twice and Z; JavaScript gets A, B, I, E, each once
C9_Witness ==
  /\ tpc = "generated"
  /\ targetLanguage = "javascript"
  /\ parsed.packages = <<Package(Str("p"), <<Str("A"), Str("Z")>>),
                         Package(Str("1"), <<Str("A")>>)>>
  /\ output = <<Chunk("generateHeader", <<>>, 0),
                Chunk("generateClass", Str("A"), 1),
                Chunk("generateClass", Str("B"), 2),
                Chunk("generateInterface", Str("I"), 1),
                Chunk("generateEnum", Str("E"), 1),
                Chunk("generateFooter", <<>>, 0)>>

\* the name is the name of a class, an interface or an enum of the Diagram
IsEntityName(name) ==
  \E entity \in Range(parsed.classes) \cup Range(parsed.interfaces)
                  \cup Range(parsed.enums) : entity.name = name

\* the list a hook renders entities of
ListOfHook(hook) ==
  CASE hook = "generateClass" -> parsed.classes
    [] hook = "generateInterface" -> parsed.interfaces
    [] hook = "generateEnum" -> parsed.enums
    [] OTHER -> <<>>

PlaceOf(chunk) ==
  IF chunk \in Range(output)
  THEN CHOOSE n \in 1..Len(output) : output[n] = chunk ELSE 0

SectionOf(package) ==
  SubSeq(output, PlaceOf(Chunk("generatePackageStart", package.name, 0)) + 1,
         PlaceOf(Chunk("generatePackageEnd", package.name, 0)) - 1)

\* C10: generate does not raise on a package that lists a name no entity
\* has; the start and end wrappers of every package are emitted, and
\* between them one piece for each member that names an entity, in list
\* order, rendering an entity of that name: the other names add nothing
C10_OrphanMembersAreSkipped ==
  /\ tpc # "raised"
  /\ (tpc = "generated" /\ targetLanguage = "java") =>
       \A p \in 1..Len(parsed.packages) :
         /\ PlaceOf(Chunk("generatePackageStart", parsed.packages[p].name, 0)) # 0
         /\ PlaceOf(Chunk("generatePackageEnd", parsed.packages[p].name, 0))
              > PlaceOf(Chunk("generatePackageStart", parsed.packages[p].name, 0))
         /\ Len(SectionOf(parsed.packages[p]))
              = Len(SelectSeq(parsed.packages[p].members, IsEntityName))
         /\ \A k \in 1..Len(SectionOf(parsed.packages[p])) :
              /\ SectionOf(parsed.packages[p])[k].name
                   = SelectSeq(parsed.packages[p].members, IsEntityName)[k]
              /\ SectionOf(parsed.packages[p])[k].idx
                   \in 1..Len(ListOfHook(SectionOf(parsed.packages[p])[k].hook))
              /\ ListOfHook(SectionOf(parsed.packages[p])[k].hook)
                   [SectionOf(parsed.packages[p])[k].idx].name
                   = SectionOf(parsed.packages[p])[k].name

\* package p lists Z, which nothing declares, before class A
C10_Witness ==
  /\ tpc = "generated"
  /\ targetLanguage = "java"
  /\ parsed.packages = <<Package(Str("p"), <<Str("Z"), Str("A")>>)>>
  /\ parsed.classes = <<Class(Str("A"), FALSE, NULL)>>
  /\ output = <<Chunk("generateHeader", <<>>, 0),
                Chunk("generatePackageStart", Str("p"), 0),
                Chunk("generateClass", Str("A"), 1),
                Chunk("generatePackageEnd", Str("p"), 0),
                Chunk("generateFooter", <<>>, 0)>>

\* ------------------------------------------------- claims on transpile
\* transpile was the entry point
TranspileCalled == plantUmlCode # <<>>

\* C11: transpile raises an error for empty or blank text and for every key
\* whose lower-cased form is not one of the seven supported keys, and the
\* message of each error names the offending input; a key is accepted (the
\* text is parsed and handed to a generator) exactly when its lower-cased
\* form is a supported key
C11_OnlySupportedKeysAccepted ==
  TranspileCalled =>
    /\ IsEmptyCode(plantUmlCode) =>
         /\ tpc \in {"called", "rejected"}
         /\ tpc = "rejected" => error = <<"PlantUML code cannot be empty">>
    /\ (~IsEmptyCode(plantUmlCode)
        /\ toLowerCase(targetLanguage) \notin SupportedLanguages) =>
         /\ tpc \in {"called", "rejected"}
         /\ tpc = "rejected" => targetLanguage \in Range(error)
    /\ (~IsEmptyCode(plantUmlCode)
        /\ toLowerCase(targetLanguage) \in SupportedLanguages) =>
         tpc \in {"called", "parsed", "threw", "generated", "raised"}

\* the line of memberLine has been read in the body of class A
ReadInClass == mpc \in {"done", "threw"} /\ ownerKind = "class"

\* [visibility] name [(params)] [: type], the name not the name of the class
PlainMember ==
  /\ memberLine.tags1 = <<>>
  /\ memberLine.tags2 = <<>>
  /\ memberLine.name # owner.name

DocumentedVisibility(symbol) ==
  IF symbol = "" THEN "public" ELSE VisibilityWord(symbol)

TypeOr(type, default) == IF type = <<>> THEN Str(default) ELSE type

\* C12: inside a class body a line  [visibility] name [: type]  produces
\* exactly one attribute and a line  [visibility] name(params) [: type]
\* exactly one method, with visibility public when the symbol is absent,
\* type Object and return type void when the type is absent, for every
\* combination of present and absent symbol and type.
C12_MemberLineYieldsOneMember ==
  (ReadInClass /\ PlainMember) =>
    /\ mpc = "done"
    /\ owner.constructors = <<>>
    /\ ~memberLine.parens =>
         /\ owner.methods = <<>>
         /\ owner.attributes =
              <<Attribute(memberLine.name, TypeOr(memberLine.type, "Object"),
                          DocumentedVisibility(memberLine.vis), FALSE, FALSE)>>
    /\ memberLine.parens =>
         /\ owner.attributes = <<>>
         /\ Len(owner.methods) = 1
         /\ owner.methods[1].name = memberLine.name
         /\ owner.methods[1].returnType = TypeOr(memberLine.type, "void")
         /\ owner.methods[1].visibility = DocumentedVisibility(memberLine.vis)

\* the {tag}s of the line, wherever they stand
TagsOf(line) == Range(line.tags1) \cup Range(line.tags2)

RECURSIVE DepthBefore(_, _)
DepthBefore(s, n) ==
  IF n <= 1 THEN 0
  ELSE DepthBefore(s, n - 1)
       + (IF s[n - 1] = "<" THEN 1 ELSE IF s[n - 1] = ">" THEN -1 ELSE 0)

\* every < of s has its >
Balanced(s) ==
  /\ DepthBefore(s, Len(s) + 1) = 0
  /\ \A n \in 1..Len(s) : DepthBefore(s, n + 1) >= 0

\* the positions of the commas of s at depth 0, in order
TopCommas(s) ==
  SelectSeq([n \in 1..Len(s) |-> IF s[n] = "," /\ DepthBefore(s, n) = 0
                                 THEN n ELSE 0],
            LAMBDA n : n # 0)

\* the k-th piece of s between commas at depth 0
PieceOf(s, k) ==
  LET commas == TopCommas(s)
      from == IF k = 1 THEN 1 ELSE commas[k - 1] + 1
      to == IF k > Len(commas) THEN Len(s) ELSE commas[k] - 1
  IN SubSeq(s, from, to)

\* the text of a piece after its first colon, Object if there is none
DeclaredType(piece) ==
  LET colon == IndexOf(piece, <<":">>)
      type == IF colon = 0 THEN <<>>
              ELSE Trim(SubSeq(piece, colon + 1, Len(piece)))
  IN IF type = <<>> THEN Str("Object") ELSE type

\* the parameter string of  +m(...)  has been parsed
ParametersParsed ==
  /\ ReadInClass
  /\ memberLine \in ParameterLines
  /\ Len(owner.methods) = 1

\* C14: parseParameters splits only at commas at angle-bracket depth 0: a
\* balanced string has as many parameters as commas at depth 0 plus one,
\* each with its type verbatim, Object when it has no colon; a blank
\* string has no parameters.
C14_SplitAtTopLevelCommas ==
  (ParametersParsed /\ Balanced(memberLine.params)) =>
    LET parameters == owner.methods[1].parameters
        paramsStr == memberLine.params
    IN IF Trim(paramsStr) = <<>> THEN parameters = <<>>
       ELSE /\ Len(parameters) = Len(TopCommas(paramsStr)) + 1
            /\ \A k \in 1..Len(parameters) :
                 parameters[k].type = DeclaredType(PieceOf(paramsStr, k))

\* the default a placeholder body returns, by the declared return type
DefaultReturn(returnType) ==
  CASE returnType = Str("void") -> <<>>
    [] returnType = Str("boolean") -> <<"        return false;\n">>
    [] returnType = Str("int") -> <<"        return 0;\n">>
    [] returnType = Str("char") -> <<"        return ' ';\n">>
    [] returnType = Str("String") -> <<"        return \"\";\n">>
    [] OTHER -> <<"        return null;\n">>

\* C15: the placeholder body of a concrete method returns false for a
\* boolean type, 0 for a numeric type, a space for a character type, the
\* empty string for a textual type such as String, null for any other type
\* and nothing for void; so class User with +getName(): String rendered by
\* the Java generator has a body that returns the empty string.
C15_PlaceholderReturnsDefault ==
  (tpc = "generated" /\ plantUmlCode \in UserSources) =>
    LET User == parsed.classes[Len(parsed.classes)] IN
    Includes(javaCode,
             <<" {\n", "        // TODO: Implement method\n">>
             \o DefaultReturn(User.methods[1].returnType)
             \o <<"    }\n\n">>)

\* generateClass has returned the text of classObj
ClassRendered == hpc = "returned"

\* a concrete class with two attributes, one constructor, one abstract and
\* one concrete method
CompleteClass ==
  /\ ~classObj.isAbstract
  /\ classObj.attributes = <<Id, Email>>
  /\ Len(classObj.constructors) = 1
  /\ classObj.methods = <<Run, Stop>>

\* the text opens the body of the method with a placeholder comment
HasPlaceholderBody(rendering, method) ==
  \E todo \in {<<"        // TODO: Implement method\n">>,
               <<"    // TODO: Implement method", "\n">>} :
    Includes(rendering, method.name \o <<"(", ")", " {\n">> \o todo)

\* the text declares the method and gives it no body
HasSignatureOnly(rendering, method) ==
  /\ Includes(rendering, method.name \o <<"(", ")">>)
  /\ ~Includes(rendering, method.name \o <<"(", ")", " {\n">>)

\* C16: for a concrete class with two attributes, one constructor, one
\* abstract and one concrete method, the output of every generator holds the
\* class name, both attribute names whatever the constructor's parameters
\* are called, the constructor, the abstract method without a body and the
\* concrete method with a placeholder body.
C16_CompleteClassIsRendered ==
  (ClassRendered /\ CompleteClass) =>
    /\ \E keyword \in {"public class ", "class "} :
         Includes(classCode, <<keyword>> \o classObj.name)
    /\ \A n \in 1..Len(classObj.attributes) :
         Includes(classCode, classObj.attributes[n].name)
    /\ \/ Includes(classCode, classObj.name \o <<"(">>)
       \/ Includes(classCode, <<"  constructor(">>)
    /\ HasSignatureOnly(classCode, Run)
    /\ HasPlaceholderBody(classCode, Stop)

\* how many constructors the text holds: Name( or Name() { in Java,
\* constructor( in JavaScript
ConstructorsRendered(rendering, name) ==
  Cardinality(
    {n \in 1..Len(rendering) :
       \/ rendering[n] = "  constructor("
       \/ /\ n < Len(rendering)
          /\ <<rendering[n]>> = name
          /\ rendering[n + 1] \in {"(", "() {\n"}})

\* C17: every generator renders as many constructors as the class declares
\* when it declares at least one; when it declares none, one default
\* constructor if the class is not abstract and none if it is.
C17_OneConstructorPerDeclared ==
  ClassRendered =>
    ConstructorsRendered(classCode, classObj.name) =
      IF Len(classObj.constructors) >= 1 THEN Len(classObj.constructors)
      ELSE IF classObj.isAbstract THEN 0 ELSE 1

\* the places in the diagram of the relationships of the given type that
\* start at the class
PlacesOf(type) ==
  {n \in 1..Len(classDiagram.relationships) :
     /\ classDiagram.relationships[n].type = type
     /\ classDiagram.relationships[n].sourceClass = classObj.name}

\* the entities of a list that carry the name
Named(entities, name) ==
  SelectSeq(entities, LAMBDA e : e.name = name)

Least(places) == CHOOSE n \in places : \A other \in places : n <= other

\* C18: findParentClass consults only the first inheritance relationship
\* whose source is the class: it returns the Class its target names, and no
\* class when there is no such relationship or the target names no declared
\* class, whatever later inheritance relationships say; the extends clause
\* is then left out and nothing is raised.
C18_FirstInheritanceOnly ==
  ClassRendered =>
    LET places == PlacesOf("inheritance")
        target == classDiagram.relationships[Least(places)].targetClass
    IN IF places = {} \/ Named(classDiagram.classes, target) = <<>>
       THEN /\ parentClass = <<>>
            /\ ~Includes(classCode, <<" extends ">>)
       ELSE /\ parentClass = Named(classDiagram.classes, target)
            /\ Includes(classCode, <<" extends ">> \o target)

\* C extends the undeclared Z first and the declared P second: no parent
C18_Witness ==
  /\ ClassRendered
  /\ Len(classDiagram.relationships) = 2
  /\ classDiagram.relationships[1] =
       Relationship(Str("C"), Str("Z"), "inheritance", <<>>)
  /\ classDiagram.relationships[2] =
       Relationship(Str("C"), Str("P"), "inheritance", <<>>)
  /\ parentClass = <<>>

\* the interfaces the implementation relationships of the class name, in
\* the order of the relationships
RECURSIVE InterfacesFrom(_)
InterfacesFrom(n) ==
  IF n > Len(classDiagram.relationships) THEN <<>>
  ELSE (IF n \in PlacesOf("implementation")
        THEN Named(classDiagram.interfaces,
                   classDiagram.relationships[n].targetClass)
        ELSE <<>>)
       \o InterfacesFrom(n + 1)

\* C19: findImplementedInterfaces returns, in relationship order, the
\* Interface of every implementation relationship whose source is the class
\* and whose target names a declared interface; other targets, types and
\* sources contribute nothing, and the result is empty when nothing
\* matches.
C19_ImplementedInterfacesInOrder ==
  (ClassRendered /\ generator = "java") =>
    /\ classInterfaces = InterfacesFrom(1)
    /\ InterfacesFrom(1) = <<>> => ~Includes(classCode, <<" implements ">>)
    /\ InterfacesFrom(1) # <<>> =>
         Includes(classCode, <<" implements ">> \o InterfacesFrom(1)[1].name)

\* C implements J, then I: both are found, J first
C19_Witness ==
  /\ ClassRendered
  /\ generator = "java"
  /\ classDiagram.relationships =
       <<Relationship(Str("C"), Str("J"), "implementation", <<>>),
         Relationship(Str("C"), Str("I"), "implementation", <<>>)>>
  /\ classInterfaces = <<Interface(Str("J"), NULL), Interface(Str("I"), NULL)>>

\* [visibility] Name(params)  with the name of the class and nothing after
\* the closing parenthesis
ConstructorShaped ==
  /\ memberLine.parens
  /\ memberLine.type = <<>>
  /\ memberLine.name = owner.name

\* C20: after a parse every record in the constructors of a Class has
\* returnType null and the name of the class, every record in its methods a
\* returnType that is not null, void when the line gave none; and a line
\* [visibility] Name(params)  with the name of the class and nothing after
\* the parenthesis goes to constructors, never to methods.
C20_ConstructorsApartFromMethods ==
  ReadInClass =>
    /\ \A n \in 1..Len(owner.constructors) :
         /\ owner.constructors[n].returnType = NULL
         /\ owner.constructors[n].name = owner.name
    /\ \A n \in 1..Len(owner.methods) :
         /\ owner.methods[n].returnType # NULL
         /\ memberLine.type = <<>> => owner.methods[n].returnType = Str("void")
         /\ memberLine.type # <<>> =>
              owner.methods[n].returnType = memberLine.type
    /\ ConstructorShaped =>
         /\ Len(owner.constructors) = 1
         /\ owner.methods = <<>>
    /\ (memberLine.parens /\ ~ConstructorShaped) =>
         /\ Len(owner.methods) = 1
         /\ owner.constructors = <<>>

\* the line  -A()  has been read in class A and gave a private constructor
C20_Witness ==
  /\ ReadInClass
  /\ ConstructorShaped
  /\ memberLine.vis = "-"
  /\ Len(owner.constructors) = 1
  /\ owner.constructors[1].visibility = "private"
  /\ owner.constructors[1].returnType = NULL

\* the blocks the lines open and have not yet closed, innermost last: an
\* entity line or a package line with { opens one, a bare } closes one
RECURSIVE OpenBlocks(_, _)
OpenBlocks(lines, n) ==
  IF n = 0 THEN <<>>
  ELSE LET before == OpenBlocks(lines, n - 1)
           line == lines[n]
       IN IF line.k \in {"entity", "package"} /\ line.brace
          THEN Append(before, line.k)
          ELSE IF line.k = "close" /\ before # <<>>
          THEN SubSeq(before, 1, Len(before) - 1)
          ELSE before

\* the lines read so far end inside the body of an entity
InsideEntityBody == "entity" \in Range(OpenBlocks(text, Len(text)))

\* the loop reads a line that carries an arrow token
ArrowLineRead ==
  /\ pc = "parsing"
  /\ Len(text') = Len(text) + 1
  /\ text'[Len(text')].k = "text"
  /\ isRelationship(text'[Len(text')].s)

\* C22: a line with an arrow token outside every entity body, also one that
\* follows an entity declared without body, adds exactly one Relationship
\* at the end of the list, whether or not its endpoints are declared; a
\* line inside an entity body adds none.
C22_ArrowLineAddsOneRelationship ==
  [][ArrowLineRead =>
       IF InsideEntityBody
       THEN diagram'.relationships = diagram.relationships
       ELSE /\ Len(diagram'.relationships) = Len(diagram.relationships) + 1
            /\ SubSeq(diagram'.relationships, 1, Len(diagram.relationships))
                 = diagram.relationships]_vars

\* the line of memberLine has been read in the body of interface A
ReadInInterface == mpc \in {"done", "threw"} /\ ownerKind = "interface"

NeverBothOpen(lines) ==
  \A n \in 0..Len(lines) :
    ~({"package", "entity"} \subseteq Range(OpenBlocks(lines, n)))

\* C23: on every text in which a package block and an entity block are
\* never open at the same time, the parser with one counter and the parser
\* with two counters have, after every line, the same inEntityDefinition
\* and the same current package.
C23_CountersAgreeApartFromNesting ==
  (pc # "idle" /\ NeverBothOpen(text)) =>
    /\ single.inEntityDefinition = inEntityDefinition
    /\ single.currentPackage = currentPackage

\* ---- C24
IsPackageStart(chunk) == chunk.hook = "generatePackageStart"

\* the names generatePackageStart was called with, in the order of the calls
PackageStarts(pieces) ==
  [n \in 1..Len(SelectSeq(pieces, IsPackageStart)) |->
     SelectSeq(pieces, IsPackageStart)[n].name]

PlaceOfHook(pieces, hook, name) ==
  CHOOSE n \in 1..Len(pieces) : pieces[n].hook = hook /\ pieces[n].name = name

\* the pieces between the start wrapper and the end wrapper of a package
PackageSectionOf(pieces, name) ==
  SubSeq(pieces, PlaceOfHook(pieces, "generatePackageStart", name) + 1,
         PlaceOfHook(pieces, "generatePackageEnd", name) - 1)

\* the hook a member name is resolved to: classes, then interfaces, then enums
ResolvedHook(given, name) ==
  IF \E n \in 1..Len(given.classes) : given.classes[n].name = name
  THEN "generateClass"
  ELSE IF \E n \in 1..Len(given.interfaces) : given.interfaces[n].name = name
  THEN "generateInterface"
  ELSE IF \E n \in 1..Len(given.enums) : given.enums[n].name = name
  THEN "generateEnum"
  ELSE "none"

\* the members of a package that name a declared entity, in list order
ResolvedMembers(given, members) ==
  LET IsDeclared(name) == ResolvedHook(given, name) # "none"
  IN SelectSeq(members, IsDeclared)

SectionInListOrder(given, pieces, package) ==
  /\ \E n \in 1..Len(pieces) :
       pieces[n] = Chunk("generatePackageStart", package.name, 0)
  /\ \E n \in 1..Len(pieces) :
       pieces[n] = Chunk("generatePackageEnd", package.name, 0)
  /\ Len(PackageSectionOf(pieces, package.name))
       = Len(ResolvedMembers(given, package.members))
  /\ \A m \in 1..Len(PackageSectionOf(pieces, package.name)) :
       /\ PackageSectionOf(pieces, package.name)[m].name
            = ResolvedMembers(given, package.members)[m]
       /\ PackageSectionOf(pieces, package.name)[m].hook
            = ResolvedHook(given, ResolvedMembers(given, package.members)[m])

\* C24: a generator with packages emits the package sections in the order
\* the names were inserted into diagram.packages, whatever the names are; a
\* section is the start wrapper, the members in list order, the end wrapper;
\* a member name is looked up among the classes, then the interfaces, then
\* the enums, and the first match decides the hook
C24_PackageSectionsInInsertionOrder ==
  (tpc = "generated" /\ supportsPackages(toLowerCase(targetLanguage))) =>
    /\ PackageStarts(output)
         = [n \in 1..Len(parsed.packages) |-> parsed.packages[n].name]
    /\ \A n \in 1..Len(parsed.packages) :
         SectionInListOrder(parsed, output, parsed.packages[n])

\* ---- C25
\* the names of the declared entities, classes first
EntityNames(given) ==
  [n \in 1..Len(given.classes) |-> given.classes[n].name]
  \o [n \in 1..Len(given.interfaces) |-> given.interfaces[n].name]
  \o [n \in 1..Len(given.enums) |-> given.enums[n].name]

\* every member name of every package, package after package
ListedNames(given) ==
  IF given.packages = <<>> THEN <<>>
  ELSE IF Len(given.packages) = 1 THEN given.packages[1].members
  ELSE given.packages[1].members \o given.packages[2].members

NoDuplicates(names) ==
  \A n, m \in 1..Len(names) : names[n] = names[m] => n = m

\* how often a hook was called with the entity at place n of its list
TimesRendered(pieces, hook, n) ==
  Cardinality({k \in 1..Len(pieces) :
                 pieces[k].hook = hook /\ pieces[k].idx = n})

\* C25: when the entity names are unique over classes, interfaces and enums
\* and every name is listed in at most one package, at most once, a
\* generator with packages calls the hook of every declared entity exactly
\* once
C25_EveryEntityRenderedOnce ==
  (/\ tpc = "generated"
   /\ supportsPackages(toLowerCase(targetLanguage))
   /\ NoDuplicates(EntityNames(parsed))
   /\ NoDuplicates(ListedNames(parsed))) =>
    /\ \A n \in 1..Len(parsed.classes) :
         TimesRendered(output, "generateClass", n) = 1
    /\ \A n \in 1..Len(parsed.interfaces) :
         TimesRendered(output, "generateInterface", n) = 1
    /\ \A n \in 1..Len(parsed.enums) :
         TimesRendered(output, "generateEnum", n) = 1

\* A and I are listed in p, Z in 1 names nothing, B and E are in no package
C25_Witness ==
  /\ tpc = "generated"
  /\ targetLanguage = "java"
  /\ parsed.classes = <<Class(Str("A"), FALSE, NULL), Class(Str("B"), FALSE, NULL)>>
  /\ parsed.interfaces = <<Interface(Str("I"), NULL)>>
  /\ parsed.enums = <<Enum(Str("E"), NULL)>>
  /\ parsed.packages = <<Package(Str("p"), <<Str("A"), Str("I")>>),
                         Package(Str("1"), <<Str("Z")>>)>>
  /\ Len(output) = 10

C27_OutputIndependentOfEarlierCalls ==
  tpc # "idle" =>
    \E fresh \in {transpile(NULL, plantUmlCode, targetLanguage)} :
      fresh.tpc = "generated" =>
        /\ tpc = "generated"
        /\ output = fresh.output
        /\ javaCode = fresh.javaCode

====
